---------------------------- MODULE Spec2Model ----------------------------
(***************************************************************************)
(* A model of the projection code of FinancialDashboard                    *)
(* (src/src/app/components/CashflowChart.tsx, second component of the      *)
(* file): generateChartData's month loop and the payoff loop of            *)
(* getDebtAnalysis; of the timeline of CashflowChart, the first component  *)
(* of the file; and of the supervisor agent's tool loop                    *)
(* (src/src/app/agentConfigs/chatSupervisor/supervisorAgent.ts).           *)
(*                                                                         *)
(* Numbers.  The program computes with IEEE doubles; the model computes    *)
(* with integers.  Amounts are whole units of currency, and a product of   *)
(* an amount with a monthly rate is rounded down to a whole unit (MulDiv). *)
(* Sums, differences, comparisons, Math.max and Math.min are exact.        *)
(*                                                                         *)
(* Dates.  A Date is [y, m, d] with m the 0-based month of getMonth(); a   *)
(* date string "YYYY-MM-DD" is [y, m, d] with m in 1..12.  The time of day *)
(* plays no part in generateChartData and is left out.                     *)
(***************************************************************************)
EXTENDS Integers, Sequences, FiniteSets, TLC

VARIABLES
    financialData,                 \* the component's state (useState, line 1253)
    timeRange,                     \* months forward (useState, line 1273)
    currentDate,                   \* new Date() of line 1350, local time
    tz,                            \* local time zone: "west" of UTC, "utc", "east"
    pc,                            \* "start" | "loop" | "goals" | "feasibility" | "analysis" | "payoff" | "done"
    i,                             \* the loop index of line 1368
    data,                          \* MonthlyData[] built by the loop
    cumulativeAvailableCash,
    currentDebts,
    currentInvestmentBalance,
    currentInvestmentBalanceLow,
    currentInvestmentBalanceHigh,
    loc,                           \* the loop body's locals in the last iteration
    lumpHits,                      \* per lump sum: iterations whose filter kept it
    goalHits,                      \* per goal: iterations whose filter kept it
    debtAnalysis,                  \* getDebtAnalysis's result, <<>> before it ran
    payoff,                        \* the locals of getDebtAnalysis's payoff loop
    clock,                         \* the local date that new Date() gives now
    run,                           \* which call of generateChartData: 0, 1 or 2
    chartData,                     \* the render's chartData (line 1637), with its date
    goalsCurrentDate,              \* currentDate of getGoalsData (line 1572)
    goalsData,                     \* the render's goalsData (line 1638)
    globalFinancialData,           \* the supervisor's accumulator (supervisorAgent.ts:5)
    deliveries,                    \* the event details dispatched so far
    calls,                         \* extract_financial_info calls handled so far
    spc,                           \* where getNextResponseFromSupervisor stands
    body,                          \* body.input of the request (line 492)
    currentResponse,               \* currentResponse of handleToolCalls (line 408)
    toolIndex,                     \* the position of the for loop of line 434
    requests,                      \* the inputs of the requests sent so far
    received,                      \* the responses received so far
    executed,                      \* the tool calls that getToolResponse has run
    breadcrumbs,                   \* the titles given to addBreadcrumb
    result,                        \* what execute returned
    timelineProfile,               \* financialData of CashflowChart (line 50)
    viewMode,                      \* useState of line 61
    projectionYears,               \* useState of line 60
    tpc,                           \* where generateTimelineData stands
    timelineData,                  \* the rows generateTimelineData has built
    cumulative                     \* cumulativeSavings and its two scenarios

vars == << financialData, timeRange, currentDate, tz, pc, i, data,
           cumulativeAvailableCash, currentDebts, currentInvestmentBalance,
           currentInvestmentBalanceLow, currentInvestmentBalanceHigh, loc,
           lumpHits, goalHits, debtAnalysis, payoff, clock, run, chartData,
           goalsCurrentDate, goalsData, globalFinancialData, deliveries, calls,
           spc, body, currentResponse, toolIndex, requests, received, executed,
           breadcrumbs, result, timelineProfile, viewMode, projectionYears, tpc,
           timelineData, cumulative >>

-----------------------------------------------------------------------------
(* Bounds of the model *)

MaxDebts == 2
MaxLumpSums == 1
MaxGoals == 1
MaxCalls == 2
MaxRounds == 2
MaxEstimateBalance == 60
MaxEstimateRate == 60

-----------------------------------------------------------------------------
(* Arithmetic helpers *)

Max(a, b) == IF a >= b THEN a ELSE b
Min(a, b) == IF a <= b THEN a ELSE b
Abs(a) == IF a < 0 THEN -a ELSE a

\* amount * num / den, rounded down to a whole unit
MulDiv(amount, num, den) == (amount * num) \div den

RECURSIVE SumSeq(_)
SumSeq(s) == IF s = << >> THEN 0 ELSE Head(s) + SumSeq(Tail(s))

\* Object.values(obj).reduce((sum, val) => sum + (val || 0), 0)
RECURSIVE SumValues(_)
SumValues(obj) ==
    IF DOMAIN obj = {} THEN 0
    ELSE LET k == CHOOSE x \in DOMAIN obj : TRUE
         IN  obj[k] + SumValues([x \in DOMAIN obj \ {k} |-> obj[x]])

\* { ...obj, ...more } and Object.assign(obj, more): the keys of both, the
\* values of more where it has the key
Spread(obj, more) ==
    [key \in DOMAIN obj \cup DOMAIN more |->
        IF key \in DOMAIN more THEN more[key] ELSE obj[key]]

SeqsUpTo(S, n) == UNION { [1..k -> S] : k \in 0..n }

-----------------------------------------------------------------------------
(* Dates *)

IsLeap(y) == (y % 4 = 0 /\ y % 100 # 0) \/ y % 400 = 0

\* days of month m (0-based) of year y
DaysInMonth(y, m) ==
    IF m = 1 THEN (IF IsLeap(y) THEN 29 ELSE 28)
    ELSE IF m \in {3, 5, 8, 10} THEN 30 ELSE 31

\* Date.prototype.setMonth(month) on `date`: the month may lie outside 0..11,
\* and a day past the end of the target month runs over into the next month.
SetMonth(date, month) ==
    LET y2 == date.y + (month \div 12)
        m2 == month % 12
        dim == DaysInMonth(y2, m2)
    IN  IF date.d <= dim
        THEN [y |-> y2, m |-> m2, d |-> date.d]
        ELSE [y |-> IF m2 = 11 THEN y2 + 1 ELSE y2,
              m |-> (m2 + 1) % 12,
              d |-> date.d - dim]

\* new Date("YYYY-MM-DD"): midnight UTC of that day, read in local time.
\* West of UTC that instant is still the evening of the day before.
ParseDate(str) ==
    IF tz # "west" THEN [y |-> str.y, m |-> str.m - 1, d |-> str.d]
    ELSE IF str.d > 1 THEN [y |-> str.y, m |-> str.m - 1, d |-> str.d - 1]
    ELSE IF str.m > 1
         THEN [y |-> str.y, m |-> str.m - 2, d |-> DaysInMonth(str.y, str.m - 2)]
         ELSE [y |-> str.y - 1, m |-> 11, d |-> 31]

\* toLocaleDateString('en-GB', {month: 'short', year: 'numeric'}): the label
\* keeps the month and the year of the date and drops the day.
MonthName(date) == [y |-> date.y, m |-> date.m]

SameMonth(a, b) == a.m = b.m /\ a.y = b.y

-----------------------------------------------------------------------------
(* Constants of the program *)

\* the loop starts twelve months back: for (let i = -12; ...)
HistoryMonths == 12

\* rates are held in tenths of a percent per year, so that 2.5 is a whole
\* number; "/ 100 / 12" then divides by RateScale
RateScale == 10 * 100 * 12

\* RETURN_RATES, in tenths of a percent
RETURN_RATES ==
    [low    |-> [base |-> 30, variance |-> 10],
     medium |-> [base |-> 60, variance |-> 25],
     high   |-> [base |-> 90, variance |-> 40]]

\* the floor -0.08 of the pessimistic monthly return, in units of 1/RateScale
ReturnFloor == -((8 * RateScale) \div 100)

\* while (balance > 0 && payoffMonths < 1000)
PayoffLimit == 1000

\* payoffMonths = Infinity
Infinity == 2147483647

-----------------------------------------------------------------------------
(* calculateDebtTotals and calculateTotals *)

calculateDebtTotals ==
    [totalDebtBalance |->
        SumSeq([k \in DOMAIN financialData.debts |-> financialData.debts[k].totalBalance]),
     totalMinimumPayments |->
        SumSeq([k \in DOMAIN financialData.debts |-> financialData.debts[k].minimumPayment])]

calculateTotals ==
    LET totalIncome == SumValues(financialData.income)
        totalExpenses == SumValues(financialData.expenses)
        totalSavings == SumValues(financialData.savings)
        totalInvestments == SumValues(financialData.investments)
        totalExpensesWithDebt == totalExpenses + calculateDebtTotals.totalMinimumPayments
    IN  [totalIncome |-> totalIncome,
         totalExpenses |-> totalExpensesWithDebt,
         totalExpensesExcludingDebt |-> totalExpenses,
         totalSavings |-> totalSavings,
         totalInvestments |-> totalInvestments,
         surplus |-> totalIncome - totalExpensesWithDebt - totalSavings - totalInvestments]

hasAnyData ==
    \/ calculateTotals.totalIncome > 0
    \/ calculateTotals.totalExpenses > 0
    \/ calculateTotals.totalSavings > 0
    \/ calculateTotals.totalInvestments > 0

monthsForward == timeRange

-----------------------------------------------------------------------------
(* The debt step of a future month (lines 1388-1398) *)

\* debt.remainingBalance * (debt.interestRate / 100 / 12)
MonthlyInterest(balance, interestRate) == MulDiv(balance, interestRate, 100 * 12)

\* Faulty variant of PrincipalPayment: the operands of the subtraction swapped.
PrincipalPaymentSwapped(debt) ==
    Max(0, MonthlyInterest(debt.remainingBalance, debt.interestRate) - debt.minimumPayment)

PrincipalPayment(debt) ==
    Max(0, debt.minimumPayment - MonthlyInterest(debt.remainingBalance, debt.interestRate))

\* Faulty variant of UpdateDebt: unpaid interest is added to the balance, as in
\* calculateDebtProjection.
UpdateDebtCompounding(debt) ==
    IF debt.remainingBalance <= 0
    THEN [debt EXCEPT !.remainingBalance = 0]
    ELSE LET monthlyInterest == MonthlyInterest(debt.remainingBalance, debt.interestRate)
             principalPayment == Min(debt.minimumPayment - monthlyInterest,
                                     debt.remainingBalance)
         IN  [debt EXCEPT !.remainingBalance = Max(0, debt.remainingBalance - principalPayment)]

UpdateDebt(debt) ==
    IF debt.remainingBalance <= 0
    THEN [debt EXCEPT !.remainingBalance = 0]
    ELSE LET principalPayment == PrincipalPayment(debt)
             newBalance == Max(0, debt.remainingBalance - principalPayment)
         IN  [debt EXCEPT !.remainingBalance = newBalance]

\* Faulty variant of DebtPayment: a paid-off debt keeps paying.
DebtPaymentAlways(debt) == debt.minimumPayment

\* what one debt adds to currentMonthDebtPayments (lines 1404-1406)
DebtPayment(debt) == IF debt.remainingBalance > 0 THEN debt.minimumPayment ELSE 0

-----------------------------------------------------------------------------
(* Investment growth of one month (lines 1410-1417) *)

\* (balance + contribution) * (1 + rate), rate in units of 1/RateScale
Grow(balance, contribution, rate) ==
    MulDiv(balance + contribution, RateScale + rate, RateScale)

GrowExpected(balance, contribution, riskData) ==
    Grow(balance, contribution, riskData.base)

\* Faulty variant of GrowLow: the variance is added instead of subtracted.
GrowLowSwapped(balance, contribution, riskData) ==
    Grow(balance, contribution, riskData.base + 2 * riskData.variance)

GrowLow(balance, contribution, riskData) ==
    Grow(balance, contribution, Max(riskData.base - riskData.variance, ReturnFloor))

GrowHigh(balance, contribution, riskData) ==
    Grow(balance, contribution, riskData.base + riskData.variance)

-----------------------------------------------------------------------------
(* Liquidation (lines 1467-1486).  inv is [cash, expected, low, high]. *)

\* Faulty variant of Liquidate: the scenario balances are not clamped at 0.
LiquidateUnclamped(inv) ==
    IF inv.cash >= 0 THEN inv
    ELSE LET cashShortfall == Abs(inv.cash)
         IN  [cash |-> 0,
              expected |-> inv.expected - cashShortfall,
              low |-> inv.low - cashShortfall,
              high |-> inv.high - cashShortfall]

\* Faulty variant of Liquidate: the cash is reset to 0 in both branches.
LiquidateResetCash(inv) ==
    IF inv.cash >= 0 THEN inv
    ELSE LET cashShortfall == Abs(inv.cash)
         IN  IF inv.expected >= cashShortfall
             THEN [cash |-> 0,
                   expected |-> inv.expected - cashShortfall,
                   low |-> Max(0, inv.low - cashShortfall),
                   high |-> Max(0, inv.high - cashShortfall)]
             ELSE [cash |-> 0, expected |-> 0, low |-> 0, high |-> 0]

\* Faulty variant of Liquidate: only the expected balance is reduced.
LiquidateExpectedOnly(inv) ==
    IF inv.cash >= 0 THEN inv
    ELSE LET cashShortfall == Abs(inv.cash)
         IN  IF inv.expected >= cashShortfall
             THEN [inv EXCEPT !.cash = 0, !.expected = inv.expected - cashShortfall]
             ELSE [cash |-> -(cashShortfall - inv.expected),
                   expected |-> 0, low |-> 0, high |-> 0]

Liquidate(inv) ==
    IF inv.cash >= 0 THEN inv
    ELSE LET cashShortfall == Abs(inv.cash)
         IN  IF inv.expected >= cashShortfall
             THEN [cash |-> 0,
                   expected |-> inv.expected - cashShortfall,
                   low |-> Max(0, inv.low - cashShortfall),
                   high |-> Max(0, inv.high - cashShortfall)]
             ELSE LET remainingShortfall == cashShortfall - inv.expected
                  IN  [cash |-> -remainingShortfall,
                       expected |-> 0, low |-> 0, high |-> 0]

-----------------------------------------------------------------------------
(* Lump sums and goals of the month of `date` (lines 1419-1446) *)

LumpMatches(lump, date, type) ==
    SameMonth(ParseDate(lump.date), date) /\ lump.type = type

GoalMatches(goal, date) == SameMonth(ParseDate(goal.targetDate), date)

monthLumpSums(date, type) ==
    SumSeq([k \in DOMAIN financialData.lumpSums |->
              IF LumpMatches(financialData.lumpSums[k], date, type)
              THEN financialData.lumpSums[k].amount ELSE 0])

monthGoals(date) ==
    SumSeq([k \in DOMAIN financialData.goals |->
              IF GoalMatches(financialData.goals[k], date)
              THEN financialData.goals[k].targetAmount ELSE 0])

-----------------------------------------------------------------------------
(* The cash of the month before liquidation (lines 1448-1465) *)

\* flows is [income, expenses, savings, investments, goals]: actualMonthlyIncome,
\* actualMonthlyExpenses, totals.totalSavings, totals.totalInvestments and
\* monthGoalExpenses.
MonthlySurplus(flows) ==
    flows.income - flows.expenses - flows.savings - flows.investments

\* Faulty variant of CashBeforeLiquidation: the balance carried over is dropped.
CashBeforeLiquidationNoCarry(cash, flows) ==
    LET afterSurplus == flows.savings + MonthlySurplus(flows)
    IN  IF flows.goals > 0 THEN afterSurplus - flows.goals ELSE afterSurplus

CashBeforeLiquidation(cash, flows) ==
    LET afterSavings == cash + flows.savings
        afterSurplus == afterSavings + MonthlySurplus(flows)
    IN  IF flows.goals > 0 THEN afterSurplus - flows.goals ELSE afterSurplus

\* Faulty variant of ProjectedNetWorth: the cash shown, clamped at 0, is used.
ProjectedNetWorthClamped(cash, expected, debtBalance) ==
    Max(0, cash) + expected - debtBalance

\* projectedNetWorth (line 1488): the running cash, negative or not
ProjectedNetWorth(cash, expected, debtBalance) == cash + expected - debtBalance

-----------------------------------------------------------------------------
(* getDebtAnalysis (lines 1538-1568) and calculateDebtProjection (1323-1343) *)

RECURSIVE DebtProjectionLoop(_, _, _, _)
DebtProjectionLoop(debt, months, k, acc) ==
    IF k >= months \/ acc.balance <= 0 THEN acc
    ELSE LET interestCharge == MonthlyInterest(acc.balance, debt.interestRate)
             principalPayment == Min(debt.minimumPayment - interestCharge, acc.balance)
         IN  DebtProjectionLoop(debt, months, k + 1,
                 [balance |-> Max(0, acc.balance - principalPayment),
                  totalPaid |-> acc.totalPaid + debt.minimumPayment])

calculateDebtProjection(debt, months) ==
    LET r == DebtProjectionLoop(debt, months, 0,
                                [balance |-> debt.totalBalance, totalPaid |-> 0])
    IN  [balance |-> r.balance, totalPaid |-> r.totalPaid,
         monthlyPayment |-> debt.minimumPayment]

\* Faulty variant of PayoffContinues: the safety limit is missing.
PayoffContinuesUncapped(p) == ~p.broke /\ p.balance > 0

\* the payoff loop goes on (line 1548) unless it was left by break (1553)
PayoffContinues(p) == ~p.broke /\ p.balance > 0 /\ p.payoffMonths < PayoffLimit

\* the locals of the payoff loop when it is entered for debt number k
\* (lines 1544-1546); steps and zeroStep record what the loop did, stepper
\* and stepperPrev what the debt step of generateChartData (UpdateDebt) makes
\* of the same debt in as many months as the loop has counted, and in one
\* month less
PayoffEntry(k, debt) ==
    [k |-> k, balance |-> debt.totalBalance, payoffMonths |-> 0, broke |-> FALSE,
     steps |-> 0, zeroStep |-> FALSE,
     stepper |-> debt.totalBalance, stepperPrev |-> debt.totalBalance]

\* the debt step of generateChartData applied to a balance of the debt
StepperNext(debt, balance) ==
    UpdateDebt(Spread(debt, [remainingBalance |-> balance])).remainingBalance

\* Faulty variant of PayoffIteration: the interest is not charged.
PayoffIterationNoInterest(p, debt) ==
    LET principalPayment == Max(0, debt.minimumPayment)
    IN  IF principalPayment <= 0
        THEN [p EXCEPT !.payoffMonths = Infinity, !.broke = TRUE,
                       !.steps = p.steps + 1, !.zeroStep = TRUE]
        ELSE [p EXCEPT !.balance = p.balance - principalPayment,
                       !.payoffMonths = p.payoffMonths + 1,
                       !.steps = p.steps + 1,
                       !.stepper = StepperNext(debt, p.stepper),
                       !.stepperPrev = p.stepper]

\* one iteration of the payoff loop (lines 1549-1556)
PayoffIteration(p, debt) ==
    LET interestCharge == MonthlyInterest(p.balance, debt.interestRate)
        principalPayment == Max(0, debt.minimumPayment - interestCharge)
    IN  IF principalPayment <= 0
        THEN [p EXCEPT !.payoffMonths = Infinity, !.broke = TRUE,
                       !.steps = p.steps + 1, !.zeroStep = TRUE]
        ELSE [p EXCEPT !.balance = p.balance - principalPayment,
                       !.payoffMonths = p.payoffMonths + 1,
                       !.steps = p.steps + 1,
                       !.stepper = StepperNext(debt, p.stepper),
                       !.stepperPrev = p.stepper]

\* what the map callback returns for one debt (lines 1559-1566)
DebtAnalysisOf(debt, p) ==
    [debt |-> debt,
     projection |-> calculateDebtProjection(debt, timeRange),
     payoffMonths |-> p.payoffMonths,
     isHighInterest |-> debt.interestRate > 15,
     monthlyInterestCost |-> MonthlyInterest(debt.totalBalance, debt.interestRate),
     steps |-> p.steps, zeroStep |-> p.zeroStep, balanceLeft |-> p.balance,
     stepper |-> p.stepper, stepperPrev |-> p.stepperPrev]

-----------------------------------------------------------------------------
(* The inputs of the model *)

Empty == [x \in {} |-> 0]

Incomes == { Empty, [salary |-> 2800, other |-> 200] }
Expenses == { Empty, [rent |-> 1500, food |-> 1000], [rent |-> 3002] }
Savings == { Empty, [isa |-> 200] }
Investments == { Empty, [pension |-> 400] }
RiskTolerances == { "low", "medium", "high" }

\* the buttons of the time range selector (line 1693) that the model covers
TimeRanges == { 12, 24 }

Debt(name, totalBalance, interestRate, minimumPayment) ==
    [name |-> name, totalBalance |-> totalBalance,
     interestRate |-> interestRate, minimumPayment |-> minimumPayment]

DebtChoices ==
    { Debt("card", 2500, 22, 120),      \* amortising, outlives the projection
      Debt("store", 2500, 22, 40),      \* the payment is below the interest
      Debt("loan", 300, 12, 150),       \* paid off in the third month
      Debt("car", 1200, 0, 100) }       \* no interest, paid off in month 12

DateStr(y, m, d) == [y |-> y, m |-> m, d |-> d]

Lump(amount, date, type) == [amount |-> amount, date |-> date, type |-> type]
Goal(targetAmount, targetDate) == [targetAmount |-> targetAmount, targetDate |-> targetDate]

CurrentDates ==
    { [y |-> 2025, m |-> 0, d |-> 15],   \* 15 January 2025
      [y |-> 2025, m |-> 0, d |-> 31],   \* 31 January 2025
      [y |-> 2024, m |-> 7, d |-> 30],   \* 30 August 2024
      [y |-> 2025, m |-> 4, d |-> 31] }  \* 31 May 2025

EventDates == { DateStr(2025, 2, 15), DateStr(2025, 3, 1), DateStr(2025, 6, 20) }

CashLumps ==
    { Lump(a, DateStr(2025, 6, 20), t) : a \in { 5000, 20000 }, t \in { "income", "expense" } }
CashGoals == { Goal(800, DateStr(2025, 6, 20)) }
RiskLumps == { Lump(a, DateStr(2025, 6, 20), "expense") : a \in { 5000, 20000 } }
DateLumps == { Lump(1000, d, "income") : d \in EventDates }
DateGoals == { Goal(800, DateStr(2025, 3, 1)) }

Profile(income, expenses, savings, investments, debts, lumpSums, goals, risk) ==
    [income |-> income, expenses |-> expenses, savings |-> savings,
     investments |-> investments, debts |-> debts, lumpSums |-> lumpSums,
     goals |-> goals, period |-> "monthly", currency |-> "GBP",
     riskTolerance |-> risk]

MidJanuary == [y |-> 2025, m |-> 0, d |-> 15]

\* the literal of useState (lines 1253-1264) and of globalFinancialData
\* (supervisorAgent.ts, lines 5-16)
InitialProfile == Profile(Empty, Empty, Empty, Empty, << >>, << >>, << >>, "medium")

\* cash and liquidation: every recurring flow, lump sums, goals
CashInputs ==
    { [fd |-> Profile(inc, ex, sv, inv, << >>, ls, gs, "medium"),
       now |-> MidJanuary, tz |-> "utc", range |-> 12] :
        inc \in Incomes, ex \in Expenses, sv \in Savings, inv \in Investments,
        ls \in SeqsUpTo(CashLumps, MaxLumpSums), gs \in SeqsUpTo(CashGoals, MaxGoals) }

\* investments under every risk tolerance, with and without a liquidation
RiskInputs ==
    { [fd |-> Profile(inc, ex, Empty, [pension |-> 400], << >>, ls, << >>, rt),
       now |-> MidJanuary, tz |-> "utc", range |-> 12] :
        inc \in Incomes, ex \in Expenses,
        ls \in SeqsUpTo(RiskLumps, MaxLumpSums), rt \in RiskTolerances }

\* debts
DebtInputs ==
    { [fd |-> Profile(inc, [rent |-> 1500, food |-> 1000], Empty, inv, ds,
                      << >>, << >>, "medium"),
       now |-> MidJanuary, tz |-> "utc", range |-> 12] :
        inc \in Incomes, inv \in Investments,
        ds \in SeqsUpTo(DebtChoices, MaxDebts) }

\* dates: the day of the month of now, the time zone, the range
DateInputs ==
    { [fd |-> Profile([salary |-> 3000], [rent |-> 2500], Empty, Empty, << >>,
                      ls, gs, "medium"),
       now |-> cd, tz |-> z, range |-> tr] :
        cd \in CurrentDates, z \in { "west", "utc", "east" }, tr \in TimeRanges,
        ls \in SeqsUpTo(DateLumps, MaxLumpSums), gs \in SeqsUpTo(DateGoals, MaxGoals) }

\* no recurring amount at all: the loop pushes rows of zeros
NoDataInputs ==
    { [fd |-> Profile(Empty, Empty, Empty, Empty, << >>, ls, gs, "medium"),
       now |-> MidJanuary, tz |-> "utc", range |-> 12] :
        ls \in SeqsUpTo(DateLumps, MaxLumpSums), gs \in SeqsUpTo(DateGoals, MaxGoals) }

\* recurring income and expenses only
ExampleInputs ==
    { [fd |-> Profile([salary |-> 5000], [rent |-> 3000], Empty, Empty, << >>,
                      << >>, << >>, "medium"),
       now |-> MidJanuary, tz |-> "utc", range |-> 12] }

\* a debt that the payoff loop does not finish within its limit
SlowDebtInputs ==
    { [fd |-> Profile([salary |-> 3000], [rent |-> 2500], Empty, Empty,
                      << Debt("mortgage", 100100, 0, 100) >>, << >>, << >>, "medium"),
       now |-> MidJanuary, tz |-> "utc", range |-> 12] }

\* a debt with a negative balance and an APR of 150 per cent
MalformedInputs ==
    { [fd |-> Profile([salary |-> 3000], [rent |-> 2500], Empty, Empty,
                      << Debt("bad", -500, 150, 50) >>, << >>, << >>, "medium"),
       now |-> MidJanuary, tz |-> "utc", range |-> 12] }

\* goals in every order, two of them with the same target date
OrderGoals ==
    { Goal(800, DateStr(2025, 6, 20)), Goal(500, DateStr(2025, 3, 1)),
      Goal(300, DateStr(2025, 6, 20)) }

GoalOrderInputs ==
    { [fd |-> Profile([salary |-> 3000], [rent |-> 2500], Empty, Empty, << >>,
                      << >>, gs, "medium"),
       now |-> MidJanuary, tz |-> "utc", range |-> 12] :
        gs \in SeqsUpTo(OrderGoals, MaxGoals + 2) }

Inputs ==
    CashInputs \cup RiskInputs \cup DebtInputs \cup DateInputs \cup NoDataInputs
      \cup ExampleInputs \cup SlowDebtInputs \cup MalformedInputs
      \cup GoalOrderInputs

-----------------------------------------------------------------------------
(* getGoalsData (lines 1571-1605) *)

\* leap days before 1 January of year y
LeapsBefore(y) == ((y - 1) \div 4) - ((y - 1) \div 100) + ((y - 1) \div 400)

RECURSIVE DaysBeforeMonth(_, _)
DaysBeforeMonth(y, m) ==
    IF m = 0 THEN 0 ELSE DaysBeforeMonth(y, m - 1) + DaysInMonth(y, m - 1)

\* the number of the day of a date with a 0-based month: getTime() in days
DayNumber(date) == 365 * date.y + LeapsBefore(date.y) + DaysBeforeMonth(date.y, date.m) + date.d

NextDay(date) ==
    IF date.d < DaysInMonth(date.y, date.m) THEN [date EXCEPT !.d = date.d + 1]
    ELSE IF date.m < 11 THEN [y |-> date.y, m |-> date.m + 1, d |-> 1]
    ELSE [y |-> date.y + 1, m |-> 0, d |-> 1]

\* the day of midnight UTC of a date string: new Date(str).getTime() in days
UtcDay(str) == DayNumber([y |-> str.y, m |-> str.m - 1, d |-> str.d])

\* Math.ceil(a / b) for b > 0
CeilDiv(a, b) == -((-a) \div b)

\* targetDate.getTime() - currentDate.getTime(), rounded up to whole days,
\* for a target at midnight UTC of its day and a now of local date `now`.
\* The time of day of now and the offset of the time zone decide whether the
\* difference falls one day short (west of UTC) or one day long (east).
DaysUntil(str, now, shift) == UtcDay(str) - DayNumber(now) - shift

DayShifts == IF tz = "west" THEN { 0, 1 } ELSE IF tz = "east" THEN { 0, -1 } ELSE { 0 }


\* Faulty variant of FeasibilityStatus: affordability is looked at first.
FeasibilityStatusAffordableFirst(isOverdue, isAffordable) ==
    IF isAffordable THEN "achievable" ELSE IF isOverdue THEN "overdue" ELSE "shortfall"

\* feasibilityStatus (line 1600)
FeasibilityStatus(isOverdue, isAffordable) ==
    IF isOverdue THEN "overdue" ELSE IF isAffordable THEN "achievable" ELSE "shortfall"

\* the map callback of getGoalsData (lines 1580-1603); daysUntil is the
\* difference of line 1582 in days, rounded up
GoalDataOf(goal, daysUntil, currentAvailableCash, monthlyCashAccumulation) ==
    LET monthsUntilTarget == CeilDiv(daysUntil, 30)
        projectedCashAtTarget ==
            IF monthsUntilTarget > 0
            THEN currentAvailableCash + monthlyCashAccumulation * monthsUntilTarget
            ELSE currentAvailableCash
        isAffordable == projectedCashAtTarget >= goal.targetAmount
        isOverdue == daysUntil <= 0
    IN  [goal |-> goal,
         daysUntil |-> daysUntil,
         monthsUntilTarget |-> Max(0, monthsUntilTarget),
         projectedCashAtTarget |-> projectedCashAtTarget,
         projectedCashAfterGoal |-> projectedCashAtTarget - goal.targetAmount,
         cashShortfall |-> Max(0, goal.targetAmount - projectedCashAtTarget),
         isAffordable |-> isAffordable,
         isOverdue |-> isOverdue,
         feasibilityStatus |-> FeasibilityStatus(isOverdue, isAffordable),
         currentAvailableCash |-> currentAvailableCash,
         monthlyCashAccumulation |-> monthlyCashAccumulation]

\* Faulty variant of InsertByTargetDate: an entry goes before the entries of
\* the same date, so that the sort is not stable.
RECURSIVE InsertByTargetDateBeforeEqual(_, _)
InsertByTargetDateBeforeEqual(g, sorted) ==
    IF sorted = << >> THEN << g >>
    ELSE IF UtcDay(g.goal.targetDate) <= UtcDay(Head(sorted).goal.targetDate)
         THEN << g >> \o sorted
         ELSE << Head(sorted) >> \o InsertByTargetDateBeforeEqual(g, Tail(sorted))

\* Array.prototype.sort by target date (line 1604): a stable insertion sort
RECURSIVE InsertByTargetDate(_, _)
InsertByTargetDate(g, sorted) ==
    IF sorted = << >> THEN << g >>
    ELSE IF UtcDay(g.goal.targetDate) < UtcDay(Head(sorted).goal.targetDate)
         THEN << g >> \o sorted
         ELSE << Head(sorted) >> \o InsertByTargetDate(g, Tail(sorted))

RECURSIVE SortByTargetDate(_)
SortByTargetDate(gs) ==
    IF gs = << >> THEN << >>
    ELSE InsertByTargetDate(gs[Len(gs)], SortByTargetDate(SubSeq(gs, 1, Len(gs) - 1)))

\* currentAvailableCash (line 1577)
CurrentAvailableCash(chart) ==
    IF Len(chart) > 0 THEN chart[Len(chart)].availableCash ELSE 0

\* monthlyCashAccumulation (line 1578)
MonthlyCashAccumulation == calculateTotals.totalSavings + Max(0, calculateTotals.surplus)

-----------------------------------------------------------------------------
(* generateChartData (lines 1346-1508) *)

NoLoc == [kind |-> "none"]

\* no payoff loop is running
NoPayoff == [k |-> 0]

\* generateChartData has not returned to the render yet
NoChart == [now |-> [y |-> 0, m |-> 0, d |-> 0], data |-> << >>]

\* Faulty variant of FreshDebts: the balances of the previous call are kept.
StaleDebts(debts) ==
    IF Len(currentDebts) = Len(debts) /\ Len(debts) > 0
    THEN currentDebts
    ELSE [k \in DOMAIN debts |->
            Spread(debts[k], [remainingBalance |-> debts[k].totalBalance])]

\* currentDebts at entry (lines 1356-1359): a copy of every debt, with
\* remainingBalance = totalBalance
FreshDebts(debts) ==
    [k \in DOMAIN debts |-> Spread(debts[k], [remainingBalance |-> debts[k].totalBalance])]

\* Faulty variant of ProfileAfterStep: the new balance is written to the
\* debt of the profile.
ProfileAfterStepInPlace(fd, debts) ==
    [fd EXCEPT !.debts = [k \in DOMAIN fd.debts |->
                             [fd.debts[k] EXCEPT !.totalBalance = debts[k].remainingBalance]]]

\* the profile after an iteration of the loop: the iteration builds new debt
\* objects by spreading (lines 1387-1398) and writes to no object of the profile
ProfileAfterStep(fd, debts) == fd

\* the render has not started
RenderIdle ==
    /\ deliveries = << >>
    /\ pc = "start"
    /\ run = 0
    /\ currentDate = clock
    /\ i = 0
    /\ data = << >>
    /\ cumulativeAvailableCash = 0
    /\ currentDebts = << >>
    /\ currentInvestmentBalance = 0
    /\ currentInvestmentBalanceLow = 0
    /\ currentInvestmentBalanceHigh = 0
    /\ loc = NoLoc
    /\ lumpHits = << >>
    /\ goalHits = << >>
    /\ chartData = NoChart
    /\ goalsCurrentDate = clock
    /\ goalsData = << >>
    /\ debtAnalysis = << >>
    /\ payoff = NoPayoff

\* no call of getNextResponseFromSupervisor is under way
NoResponse == [none |-> TRUE]

SupervisorIdle ==
    /\ spc = "idle"
    /\ body = << >>
    /\ currentResponse = NoResponse
    /\ toolIndex = 0
    /\ requests = << >>
    /\ received = << >>
    /\ executed = << >>
    /\ breadcrumbs = << >>
    /\ result = NoResponse

\* the literal of useState of CashflowChart (lines 50-58)
InitialTimelineProfile ==
    [income |-> Empty, expenses |-> Empty, savings |-> Empty, debts |-> Empty,
     lumpSums |-> << >>, period |-> "monthly", currency |-> "USD"]

NoCumulative == [base |-> 0, optimistic |-> 0, pessimistic |-> 0]

\* CashflowChart as it is constructed (lines 50-61)
TimelineIdle ==
    /\ timelineProfile = InitialTimelineProfile
    /\ viewMode = "yearly"
    /\ projectionYears = 5
    /\ tpc = "idle"
    /\ timelineData = << >>
    /\ cumulative = NoCumulative

Init ==
    /\ \/ \E inp \in Inputs :
             /\ financialData = inp.fd
             /\ globalFinancialData = inp.fd
             /\ timeRange = inp.range
             /\ clock = inp.now
             /\ tz = inp.tz
             /\ calls = MaxCalls
       \/ /\ financialData = InitialProfile
          /\ globalFinancialData = InitialProfile
          /\ timeRange = 12
          /\ clock = MidJanuary
          /\ tz = "utc"
          /\ calls = 0
    /\ RenderIdle
    /\ SupervisorIdle
    /\ TimelineIdle

\* the dashboard's state and its environment
profileVars == << financialData, timeRange, tz >>

\* the accumulator of the supervisor agent and what it dispatched
collectorVars == << globalFinancialData, deliveries, calls >>

\* the variables of one call of generateChartData
chartVars == << currentDate, run, i, data, cumulativeAvailableCash, currentDebts,
                currentInvestmentBalance, currentInvestmentBalanceLow,
                currentInvestmentBalanceHigh, loc, lumpHits, goalHits >>

\* what the render got from its calls (lines 1637-1639)
renderVars == << chartData, goalsCurrentDate, goalsData, debtAnalysis, payoff >>

\* the variables of getNextResponseFromSupervisor and handleToolCalls
supervisorVars == << spc, body, currentResponse, toolIndex, requests, received,
                     executed, breadcrumbs, result >>

\* the variables of CashflowChart, the timeline component
timelineVars == << timelineProfile, viewMode, projectionYears, tpc, timelineData,
                   cumulative >>

(* getToolResponse, case "extract_financial_info" (supervisorAgent.ts,   *)
(* lines 326-396), with the listener of the dashboard (CashflowChart.tsx,  *)
(* lines 1280-1282) that dispatchEvent calls synchronously                 *)

\* Faulty variant of EstimatedPayment: the sum is rounded down.
EstimatedPaymentTruncated(debt) ==
    (debt.totalBalance * debt.interestRate + 24 * debt.totalBalance) \div 1200

\* Math.round(monthlyInterest + principalPayment) of lines 348-350:
\* balance * rate / 100 / 12 + balance * 0.02, rounded half up
EstimatedPayment(debt) ==
    (2 * (debt.totalBalance * debt.interestRate + 24 * debt.totalBalance) + 1200) \div 2400

\* generateUniqueId (lines 322-324): a time stamp and a random suffix, taken
\* here as the number of the call and the position in it
generateUniqueId(prefix, call, n) == [prefix |-> prefix, call |-> call, n |-> n]

\* the map callback of lines 342-358
NewDebt(debt, call, n) ==
    LET estimatedPayment ==
            IF "minimumPayment" \in DOMAIN debt /\ debt.minimumPayment # 0
            THEN debt.minimumPayment
            ELSE IF debt.totalBalance # 0 /\ debt.interestRate # 0
                 THEN EstimatedPayment(debt)
                 ELSE 0
    IN  Spread(debt, [id |-> generateUniqueId("debt", call, n),
                      minimumPayment |-> estimatedPayment])

\* Faulty variant of AssignCategory: the stored object is replaced.
AssignCategoryReplacing(g, args, cat) ==
    IF cat \in DOMAIN args THEN args[cat] ELSE g[cat]

\* if (args.income) Object.assign(globalFinancialData.income, args.income)
\* (lines 330-333), for one of the four categories
AssignCategory(g, args, cat) ==
    IF cat \in DOMAIN args THEN Spread(g[cat], args[cat]) ELSE g[cat]

\* if (args.riskTolerance) globalFinancialData.riskTolerance = ... (336-337)
AssignField(g, args, field) ==
    IF field \in DOMAIN args THEN args[field] ELSE g[field]

\* the accumulator after the updates of lines 330-378
MergeArgs(g, args, call) ==
    [income |-> AssignCategory(g, args, "income"),
     expenses |-> AssignCategory(g, args, "expenses"),
     savings |-> AssignCategory(g, args, "savings"),
     investments |-> AssignCategory(g, args, "investments"),
     riskTolerance |-> AssignField(g, args, "riskTolerance"),
     currency |-> AssignField(g, args, "currency"),
     period |-> g.period,
     debts |-> IF "debts" \in DOMAIN args
               THEN g.debts \o [n \in DOMAIN args.debts |-> NewDebt(args.debts[n], call, n)]
               ELSE g.debts,
     goals |-> IF "goals" \in DOMAIN args
               THEN g.goals \o [n \in DOMAIN args.goals |->
                       Spread(args.goals[n], [id |-> generateUniqueId("goal", call, n)])]
               ELSE g.goals,
     lumpSums |-> IF "lumpSums" \in DOMAIN args
                  THEN g.lumpSums \o [n \in DOMAIN args.lumpSums |->
                          Spread(args.lumpSums[n], [id |-> generateUniqueId("lump", call, n)])]
                  ELSE g.lumpSums]

\* the object that is the detail of the event (line 383): the accumulator
\* itself, not a copy
AccumulatorRef == "globalFinancialData"

EventDetail(g) == [ref |-> AccumulatorRef, value |-> g]

\* the arguments of the calls that the model covers
ExtractArgs ==
    { [income |-> [salary |-> 3000], expenses |-> [rent |-> 1200],
       debts |-> << [name |-> "card", totalBalance |-> 2500, interestRate |-> 22] >>],
      [income |-> [bonus |-> 200], debts |-> << Debt("loan", 300, 12, 150) >>,
       goals |-> << Goal(800, DateStr(2025, 6, 20)) >>],
      [riskTolerance |-> "high", currency |-> "EUR",
       lumpSums |-> << Lump(1000, DateStr(2025, 2, 15), "income") >>],
      [expenses |-> [rent |-> 1500], savings |-> [isa |-> 200],
       investments |-> [pension |-> 400],
       debts |-> << [name |-> "tab", totalBalance |-> 10, interestRate |-> 22],
                    [name |-> "slate", totalBalance |-> 25, interestRate |-> 48] >>],
      Empty }

\* one call of extract_financial_info: the merge, the event, and the
\* listener's setFinancialData(event.detail), after which the state of the
\* dashboard is the accumulator object
ExtractFinancialInfo ==
    /\ pc = "start"
    /\ calls < MaxCalls
    /\ \E args \in ExtractArgs :
          /\ globalFinancialData' = MergeArgs(globalFinancialData, args, calls + 1)
          /\ deliveries' = Append(deliveries, EventDetail(globalFinancialData'))
          /\ financialData' = globalFinancialData'
          /\ loc' = [kind |-> "extract", args |-> args, before |-> globalFinancialData]
    /\ calls' = calls + 1
    /\ UNCHANGED << timeRange, tz, clock, pc, currentDate, run, i, data,
                    cumulativeAvailableCash, currentDebts, currentInvestmentBalance,
                    currentInvestmentBalanceLow, currentInvestmentBalanceHigh,
                    lumpHits, goalHits, renderVars >>
    /\ UNCHANGED << supervisorVars, timelineVars >>

\* the entry of generateChartData (lines 1347-1366): new Date() and the locals
EnterGenerateChartData ==
    /\ currentDate' = clock
    /\ i' = -HistoryMonths
    /\ data' = << >>
    /\ cumulativeAvailableCash' = 0
    /\ currentDebts' = FreshDebts(financialData.debts)
    /\ currentInvestmentBalance' = 0
    /\ currentInvestmentBalanceLow' = 0
    /\ currentInvestmentBalanceHigh' = 0
    /\ loc' = NoLoc
    /\ lumpHits' = [k \in DOMAIN financialData.lumpSums |-> 0]
    /\ goalHits' = [k \in DOMAIN financialData.goals |-> 0]

\* the render calls generateChartData (line 1637)
GenerateChartData ==
    /\ pc = "start"
    /\ EnterGenerateChartData
    /\ run' = 1
    /\ pc' = "loop"
    /\ UNCHANGED << profileVars, collectorVars, renderVars, clock >>
    /\ UNCHANGED << supervisorVars, timelineVars >>

\* the date of iteration i (lines 1369-1370)
DateOf(k) == SetMonth(currentDate, currentDate.m + k)

\* one iteration of the loop when the profile holds no recurring amount
StepNoData ==
    /\ pc = "loop"
    /\ i <= monthsForward
    /\ hasAnyData = FALSE
    /\ data' = Append(data,
          [period |-> MonthName(DateOf(i)), income |-> 0, expenses |-> 0,
           surplus |-> 0, netWorth |-> 0, investments |-> 0, investmentsLow |-> 0,
           investmentsHigh |-> 0, availableCash |-> 0, liabilities |-> 0,
           lumpSums |-> 0, totalDebtBalance |-> 0, totalDebtPayments |-> 0])
    /\ i' = i + 1
    /\ loc' = [kind |-> "nodata", i |-> i, date |-> DateOf(i)]
    /\ UNCHANGED << profileVars, collectorVars, renderVars, clock, pc, currentDate,
                    run, cumulativeAvailableCash, currentDebts,
                    currentInvestmentBalance, currentInvestmentBalanceLow,
                    currentInvestmentBalanceHigh, lumpHits, goalHits >>
    /\ UNCHANGED << supervisorVars, timelineVars >>

\* what one iteration computes for a profile with data (lines 1382-1504);
\* cash, expected, low, high are the balances the iteration starts from
MonthOf(k, debtsStart, cash, expected, low, high) ==
    LET totals == calculateTotals
        date == DateOf(k)
        debts == IF k > 0
                 THEN [n \in DOMAIN debtsStart |-> UpdateDebt(debtsStart[n])]
                 ELSE debtsStart
        payments == [n \in DOMAIN debts |-> DebtPayment(debts[n])]
        currentMonthDebtBalance ==
            SumSeq([n \in DOMAIN debts |-> debts[n].remainingBalance])
        currentMonthDebtPayments == SumSeq(payments)
        riskData == RETURN_RATES[financialData.riskTolerance]
        monthLumpSumsIncome == monthLumpSums(date, "income")
        monthLumpSumsExpense == monthLumpSums(date, "expense")
        monthGoalExpenses == monthGoals(date)
        netLumpSums == monthLumpSumsIncome - monthLumpSumsExpense - monthGoalExpenses
        actualMonthlyIncome == totals.totalIncome + monthLumpSumsIncome
        baseExpenses == SumValues(financialData.expenses)
        actualMonthlyExpenses == baseExpenses + currentMonthDebtPayments
                                   + monthLumpSumsExpense + monthGoalExpenses
        flows == [income |-> actualMonthlyIncome,
                  expenses |-> actualMonthlyExpenses,
                  savings |-> totals.totalSavings,
                  investments |-> totals.totalInvestments,
                  goals |-> monthGoalExpenses]
    IN  [date |-> date,
         debts |-> debts,
         payments |-> payments,
         currentMonthDebtBalance |-> currentMonthDebtBalance,
         currentMonthDebtPayments |-> currentMonthDebtPayments,
         lumpIn |-> monthLumpSumsIncome,
         lumpOut |-> monthLumpSumsExpense,
         goalOut |-> monthGoalExpenses,
         netLumpSums |-> netLumpSums,
         baseExpenses |-> baseExpenses,
         flows |-> flows,
         monthlySurplus |-> MonthlySurplus(flows),
         before |-> [cash |-> CashBeforeLiquidation(cash, flows),
                     expected |-> GrowExpected(expected, totals.totalInvestments, riskData),
                     low |-> GrowLow(low, totals.totalInvestments, riskData),
                     high |-> GrowHigh(high, totals.totalInvestments, riskData)]]

\* one iteration of the loop for a profile with data
StepMonth ==
    /\ pc = "loop"
    /\ i <= monthsForward
    /\ hasAnyData = TRUE
    /\ \E m \in { MonthOf(i, currentDebts, cumulativeAvailableCash,
                          currentInvestmentBalance, currentInvestmentBalanceLow,
                          currentInvestmentBalanceHigh) } :
       \E after \in { Liquidate(m.before) } :
           /\ currentDebts' = m.debts
           /\ cumulativeAvailableCash' = after.cash
           /\ currentInvestmentBalance' = after.expected
           /\ currentInvestmentBalanceLow' = after.low
           /\ currentInvestmentBalanceHigh' = after.high
           /\ data' = Append(data,
                 [period |-> MonthName(m.date),
                  income |-> m.flows.income,
                  expenses |-> m.flows.expenses,
                  surplus |-> m.monthlySurplus,
                  netWorth |-> ProjectedNetWorth(after.cash, after.expected,
                                                m.currentMonthDebtBalance),
                  investments |-> after.expected,
                  investmentsLow |-> after.low,
                  investmentsHigh |-> after.high,
                  availableCash |-> Max(0, after.cash),
                  liabilities |-> m.currentMonthDebtBalance,
                  lumpSums |-> m.netLumpSums,
                  totalDebtBalance |-> m.currentMonthDebtBalance,
                  totalDebtPayments |-> m.currentMonthDebtPayments])
           /\ lumpHits' = [n \in DOMAIN lumpHits |->
                 IF \E t \in { "income", "expense" } :
                        LumpMatches(financialData.lumpSums[n], m.date, t)
                 THEN lumpHits[n] + 1 ELSE lumpHits[n]]
           /\ goalHits' = [n \in DOMAIN goalHits |->
                 IF GoalMatches(financialData.goals[n], m.date)
                 THEN goalHits[n] + 1 ELSE goalHits[n]]
           /\ loc' = [kind |-> "month", i |-> i, date |-> m.date,
                      cashStart |-> cumulativeAvailableCash,
                      debtsStart |-> currentDebts,
                      payments |-> m.payments,
                      lumpIn |-> m.lumpIn,
                      lumpOut |-> m.lumpOut,
                      goalOut |-> m.goalOut,
                      baseExpenses |-> m.baseExpenses,
                      before |-> m.before]
    /\ i' = i + 1
    /\ financialData' = ProfileAfterStep(financialData, currentDebts')
    /\ UNCHANGED << timeRange, tz, collectorVars, renderVars, clock, pc,
                    currentDate, run >>
    /\ UNCHANGED << supervisorVars, timelineVars >>

\* the loop ends and generateChartData returns data: to the render (line
\* 1637) from the first call, to getGoalsData (line 1574) from the second
Return ==
    /\ pc = "loop"
    /\ i > monthsForward
    /\ IF run = 1
       THEN /\ chartData' = [now |-> currentDate, data |-> data]
            /\ pc' = "goals"
       ELSE /\ chartData' = chartData
            /\ pc' = "feasibility"
    /\ UNCHANGED << profileVars, collectorVars, chartVars, clock,
                    goalsCurrentDate, goalsData, debtAnalysis, payoff >>
    /\ UNCHANGED << supervisorVars, timelineVars >>

\* midnight passes between the two calls of the render
Tick ==
    /\ pc = "goals"
    /\ clock = chartData.now
    /\ clock' = NextDay(clock)
    /\ UNCHANGED << profileVars, collectorVars, chartVars, renderVars, pc >>
    /\ UNCHANGED << supervisorVars, timelineVars >>

\* the render calls getGoalsData (line 1638), which reads the clock and
\* calls generateChartData again (lines 1572-1574)
GetGoalsData ==
    /\ pc = "goals"
    /\ goalsCurrentDate' = clock
    /\ EnterGenerateChartData
    /\ run' = 2
    /\ pc' = "loop"
    /\ UNCHANGED << profileVars, collectorVars, clock, chartData, goalsData,
                    debtAnalysis, payoff >>
    /\ UNCHANGED << supervisorVars, timelineVars >>

\* getGoalsData maps and sorts the goals and returns (lines 1575-1604)
GoalsReturn ==
    /\ pc = "feasibility"
    /\ \E shift \in DayShifts :
          /\ goalsData' = SortByTargetDate(
                [k \in DOMAIN financialData.goals |->
                    GoalDataOf(financialData.goals[k],
                               DaysUntil(financialData.goals[k].targetDate,
                                         goalsCurrentDate, shift),
                               CurrentAvailableCash(data),
                               MonthlyCashAccumulation)])
          /\ loc' = [kind |-> "goals", shift |-> shift]
    /\ pc' = "analysis"
    /\ UNCHANGED << profileVars, collectorVars, clock, currentDate, run, i, data,
                    cumulativeAvailableCash, currentDebts, currentInvestmentBalance,
                    currentInvestmentBalanceLow, currentInvestmentBalanceHigh,
                    lumpHits, goalHits, chartData, goalsCurrentDate, debtAnalysis,
                    payoff >>
    /\ UNCHANGED << supervisorVars, timelineVars >>

\* getDebtAnalysis (line 1639) calls the map callback for the next debt
PayoffStart ==
    /\ pc = "analysis"
    /\ Len(debtAnalysis) < Len(financialData.debts)
    /\ payoff' = PayoffEntry(Len(debtAnalysis) + 1,
                             financialData.debts[Len(debtAnalysis) + 1])
    /\ pc' = "payoff"
    /\ UNCHANGED << profileVars, collectorVars, chartVars, clock, chartData,
                    goalsCurrentDate, goalsData, debtAnalysis >>
    /\ UNCHANGED << supervisorVars, timelineVars >>

\* one iteration of the payoff loop
PayoffStep ==
    /\ pc = "payoff"
    /\ PayoffContinues(payoff)
    /\ payoff' = PayoffIteration(payoff, financialData.debts[payoff.k])
    /\ UNCHANGED << profileVars, collectorVars, chartVars, clock, pc, chartData,
                    goalsCurrentDate, goalsData, debtAnalysis >>
    /\ UNCHANGED << supervisorVars, timelineVars >>

\* the payoff loop is over and the callback returns
PayoffReturn ==
    /\ pc = "payoff"
    /\ ~PayoffContinues(payoff)
    /\ debtAnalysis' = Append(debtAnalysis,
                              DebtAnalysisOf(financialData.debts[payoff.k], payoff))
    /\ payoff' = NoPayoff
    /\ pc' = "analysis"
    /\ UNCHANGED << profileVars, collectorVars, chartVars, clock, chartData,
                    goalsCurrentDate, goalsData >>
    /\ UNCHANGED << supervisorVars, timelineVars >>

\* every debt is analysed: getDebtAnalysis returns
GetDebtAnalysis ==
    /\ pc = "analysis"
    /\ Len(debtAnalysis) = Len(financialData.debts)
    /\ pc' = "done"
    /\ UNCHANGED << profileVars, collectorVars, chartVars, clock, renderVars >>
    /\ UNCHANGED << supervisorVars, timelineVars >>

Next ==
    \/ ExtractFinancialInfo
    \/ GenerateChartData
    \/ StepNoData
    \/ StepMonth
    \/ Return
    \/ Tick
    \/ GetGoalsData
    \/ GoalsReturn
    \/ PayoffStart
    \/ PayoffStep
    \/ PayoffReturn
    \/ GetDebtAnalysis

Spec == Init /\ [][Next]_vars

-----------------------------------------------------------------------------
(* getNextResponseFromSupervisor, handleToolCalls and fetchResponsesMessage *)
(* (supervisorAgent.ts, lines 303-319 and 403-528)                          *)
(*                                                                          *)
(* A JSON text is [json |-> value]; the empty string is [empty |-> TRUE];   *)
(* a text that JSON.parse rejects is [truncated |-> TRUE].  A text built by *)
(* join is the sequence of its pieces.                                      *)

\* { error: 'Something went wrong.' } (lines 314, 412, 519, 524)
ErrorValue == [error |-> "Something went wrong."]

JsonStringify(value) == [json |-> value]
EmptyString == [empty |-> TRUE]
TruncatedJson == [truncated |-> TRUE]

\* JSON.parse(toolCall.arguments || '{}') returns (line 436); it throws a
\* SyntaxError otherwise
Parses(text) == "json" \in DOMAIN text \/ "empty" \in DOMAIN text

JsonParse(text) == IF "json" \in DOMAIN text THEN text.json ELSE Empty

\* Faulty variant of HasError: an error is not noticed.
HasErrorNever(response) == FALSE

\* currentResponse?.error (line 411), response.error (line 518)
HasError(response) == "error" \in DOMAIN response

\* currentResponse.output ?? [] (line 415)
OutputItems(response) == IF "output" \in DOMAIN response THEN response.output ELSE << >>

\* outputItems.filter((item) => item.type === 'function_call') (line 416)
FunctionCalls(response) ==
    SelectSeq(OutputItems(response), LAMBDA item : item.type = "function_call")

\* parts.join('\n')
RECURSIVE JoinLines(_)
JoinLines(parts) ==
    IF parts = << >> THEN << >>
    ELSE IF Len(parts) = 1 THEN parts[1]
    ELSE parts[1] \o << "\n" >> \o JoinLines(Tail(parts))

\* the output_text pieces of one message, joined by '' (lines 423-427)
MessageText(msg) ==
    LET texts == SelectSeq(msg.content, LAMBDA c : c.type = "output_text")
    IN  [k \in DOMAIN texts |-> texts[k].text]

\* finalText (lines 419-429)
FinalText(response) ==
    LET assistantMessages ==
            SelectSeq(OutputItems(response), LAMBDA item : item.type = "message")
    IN  JoinLines([k \in DOMAIN assistantMessages |-> MessageText(assistantMessages[k])])

\* what getToolResponse returns (lines 387-399)
ToolResult(fName, args) ==
    IF fName = "extract_financial_info"
    THEN [success |-> TRUE,
          message |-> "Financial data extracted and sent to cashflow diagram",
          data_updated |-> TRUE,
          items_added |->
              [debts |-> IF "debts" \in DOMAIN args THEN Len(args.debts) ELSE 0,
               goals |-> IF "goals" \in DOMAIN args THEN Len(args.goals) ELSE 0,
               lump_sums |-> IF "lumpSums" \in DOMAIN args THEN Len(args.lumpSums) ELSE 0]]
    ELSE [result |-> TRUE]

\* Faulty variant of ToolItems: the output is pushed before the call.
ToolItemsOutputFirst(toolCall, toolRes) ==
    << [type |-> "function_call_output", call_id |-> toolCall.call_id,
        output |-> JsonStringify(toolRes)],
       [type |-> "function_call", call_id |-> toolCall.call_id,
        name |-> toolCall.name, arguments |-> toolCall.arguments] >>

\* the two items of body.input.push (lines 446-458)
ToolItems(toolCall, toolRes) ==
    << [type |-> "function_call", call_id |-> toolCall.call_id,
        name |-> toolCall.name, arguments |-> toolCall.arguments],
       [type |-> "function_call_output", call_id |-> toolCall.call_id,
        output |-> JsonStringify(toolRes)] >>

\* Faulty variant of AccumulatorAfterError: the profile of the start of the
\* call is put back.
AccumulatorRolledBack(g, atStart) == atStart

\* the accumulator when the error value is returned: nothing is undone
\* (lines 411-413 and 523-525)
AccumulatorAfterError(g, atStart) == g

\* the input of the first request (lines 494-513)
FirstInput(g) ==
    << [type |-> "message", role |-> "system", content |-> "supervisorAgentInstructions"],
       [type |-> "message", role |-> "user",
        content |-> [history |-> "filteredLogs",
                     context |-> "relevantContextFromLastUserMessage",
                     state |-> JsonStringify(g)]] >>

\* the items of the responses that the model covers
OutputText(text) == [type |-> "output_text", text |-> text]

Message(content) == [type |-> "message", role |-> "assistant", content |-> content]

FunctionCall(call_id, name, arguments) ==
    [type |-> "function_call", id |-> << "fc", call_id >>, status |-> "completed",
     call_id |-> call_id, name |-> name, arguments |-> arguments]

\* completions without a function call
FinalCompletions ==
    { [output |-> << Message(<< OutputText("Your plan"), [type |-> "refusal"],
                                OutputText(" is ready.") >>),
                     Message(<< OutputText("Anything else?") >>) >>],
      [status |-> "incomplete"] }

\* completions with function calls: one call; a message and two calls, one
\* of a tool that getToolResponse does not know; a call whose arguments are
\* cut off, between two others
ToolCompletions ==
    { [output |-> << FunctionCall("call_1", "extract_financial_info",
                        JsonStringify([income |-> [salary |-> 3000],
                                       debts |-> << Debt("loan", 300, 12, 150) >>])) >>],
      [output |-> << Message(<< OutputText("Noted.") >>),
                     FunctionCall("call_2", "extract_financial_info",
                        JsonStringify([expenses |-> [rent |-> 1200]])),
                     FunctionCall("call_3", "lookup_rates", EmptyString) >>],
      [output |-> << FunctionCall("call_4", "extract_financial_info",
                        JsonStringify([savings |-> [isa |-> 200]])),
                     FunctionCall("call_5", "extract_financial_info", TruncatedJson),
                     FunctionCall("call_6", "extract_financial_info",
                        JsonStringify([currency |-> "EUR"])) >>] }

\* what fetchResponsesMessage can return (lines 312-318): the error value
\* when the server's answer is not ok, the completion otherwise.  The
\* service gives completions with function calls for MaxRounds requests.
Responses ==
    { ErrorValue } \cup FinalCompletions
      \cup (IF Len(requests) <= MaxRounds THEN ToolCompletions ELSE {})

\* the profiles that the accumulator holds when execute is called
SupervisorProfiles ==
    { InitialProfile,
      Profile([salary |-> 2800], [rent |-> 1500], Empty, Empty,
              << Debt("card", 2500, 22, 120) >>, << >>, << >>, "medium") }

InitSupervisor ==
    /\ globalFinancialData \in SupervisorProfiles
    /\ financialData = globalFinancialData
    /\ timeRange = 12
    /\ clock = MidJanuary
    /\ tz = "utc"
    /\ calls = 0
    /\ RenderIdle
    /\ SupervisorIdle
    /\ TimelineIdle

\* what the supervisor leaves alone
supervisorFrame ==
    << timeRange, currentDate, tz, pc, i, data, cumulativeAvailableCash,
       currentDebts, currentInvestmentBalance, currentInvestmentBalanceLow,
       currentInvestmentBalanceHigh, loc, lumpHits, goalHits, debtAnalysis,
       payoff, clock, run, chartData, goalsCurrentDate, goalsData, timelineVars >>

\* execute builds the body and sends the first request (lines 480-517)
Execute ==
    /\ spc = "idle"
    /\ body' = FirstInput(globalFinancialData)
    /\ requests' = << body' >>
    /\ spc' = "first"
    /\ UNCHANGED << financialData, collectorVars, currentResponse, toolIndex,
                    received, executed, breadcrumbs, result, supervisorFrame >>

\* fetch or response.json() rejects (lines 304, 317): the exception leaves
\* handleToolCalls and execute
FetchRejects ==
    /\ spc \in { "first", "await" }
    /\ spc' = "thrown"
    /\ UNCHANGED << financialData, collectorVars, body, currentResponse, toolIndex,
                    requests, received, executed, breadcrumbs, result,
                    supervisorFrame >>

\* the answer to the first request (lines 517-522)
FirstResponse ==
    /\ spc = "first"
    /\ \E response \in Responses :
          /\ received' = Append(received, response)
          /\ IF HasError(response)
             THEN /\ result' = ErrorValue
                  /\ spc' = "returned"
                  /\ currentResponse' = currentResponse
             ELSE /\ result' = result
                  /\ spc' = "handle"
                  /\ currentResponse' = response
    /\ UNCHANGED << financialData, collectorVars, body, toolIndex, requests,
                    executed, breadcrumbs, supervisorFrame >>

\* the head of the while loop (lines 410-432); what handleToolCalls
\* returns is what execute returns (lines 522-527)
LoopTop ==
    /\ spc = "handle"
    /\ IF HasError(currentResponse)
       THEN /\ result' = ErrorValue
            /\ spc' = "returned"
            /\ toolIndex' = toolIndex
            /\ globalFinancialData' =
                  AccumulatorAfterError(globalFinancialData, requests[1][2].content.state.json)
       ELSE IF FunctionCalls(currentResponse) = << >>
       THEN /\ result' = [text |-> FinalText(currentResponse)]
            /\ spc' = "returned"
            /\ toolIndex' = toolIndex
            /\ globalFinancialData' = globalFinancialData
       ELSE /\ result' = result
            /\ spc' = "tools"
            /\ toolIndex' = 1
            /\ globalFinancialData' = globalFinancialData
    /\ UNCHANGED << financialData, deliveries, calls, body, currentResponse,
                    requests, received, executed, breadcrumbs, supervisorFrame >>

\* one iteration of the for loop (lines 434-459), getToolResponse and the
\* listener of the dashboard included
ToolCall ==
    /\ spc = "tools"
    /\ toolIndex <= Len(FunctionCalls(currentResponse))
    /\ \E toolCall \in { FunctionCalls(currentResponse)[toolIndex] } :
          IF ~Parses(toolCall.arguments)
          THEN /\ spc' = "thrown"
               /\ UNCHANGED << financialData, collectorVars, body, toolIndex,
                               executed, breadcrumbs >>
          ELSE \E args \in { JsonParse(toolCall.arguments) } :
               /\ IF toolCall.name = "extract_financial_info"
                  THEN /\ globalFinancialData' =
                             MergeArgs(globalFinancialData, args, calls + 1)
                       /\ deliveries' = Append(deliveries, EventDetail(globalFinancialData'))
                       /\ financialData' = globalFinancialData'
                       /\ calls' = calls + 1
                  ELSE UNCHANGED << financialData, collectorVars >>
               /\ breadcrumbs' = breadcrumbs \o
                     << << "function call", toolCall.name >>,
                        << "function call result", toolCall.name >> >>
               /\ body' = body \o ToolItems(toolCall, ToolResult(toolCall.name, args))
               /\ executed' = Append(executed, toolCall)
               /\ toolIndex' = toolIndex + 1
               /\ spc' = spc
    /\ UNCHANGED << currentResponse, requests, received, result, supervisorFrame >>

\* the for loop is over: the follow-up request is sent (line 461)
SendFollowUp ==
    /\ spc = "tools"
    /\ toolIndex > Len(FunctionCalls(currentResponse))
    /\ requests' = Append(requests, body)
    /\ spc' = "await"
    /\ UNCHANGED << financialData, collectorVars, body, currentResponse, toolIndex,
                    received, executed, breadcrumbs, result, supervisorFrame >>

\* the answer to a follow-up request (line 461)
FollowUpResponse ==
    /\ spc = "await"
    /\ \E response \in Responses :
          /\ received' = Append(received, response)
          /\ currentResponse' = response
    /\ spc' = "handle"
    /\ UNCHANGED << financialData, collectorVars, body, toolIndex, requests,
                    executed, breadcrumbs, result, supervisorFrame >>

NextSupervisor ==
    \/ Execute
    \/ FetchRejects
    \/ FirstResponse
    \/ LoopTop
    \/ ToolCall
    \/ SendFollowUp
    \/ FollowUpResponse

\* the continuation of an await runs once its promise is settled, and the
\* service settles every request
SupervisorSpec ==
    InitSupervisor /\ [][NextSupervisor]_vars /\ WF_vars(NextSupervisor)

-----------------------------------------------------------------------------
(* CashflowChart, the timeline component (CashflowChart.tsx, lines 49-324) *)
(*                                                                         *)
(* An instant is a number of hours of local time.  The limits of a period  *)
(* are at local midnight; new Date("YYYY-MM-DD") is midnight UTC, which is *)
(* some hours before local midnight west of UTC and some hours after it    *)
(* east of UTC.  Every offset other than 0 compares with the limits as the *)
(* offsets taken here do.  Fractions are held in thousandths.              *)

\* the offset of local time from UTC, in hours
TzOffsetHours == IF tz = "west" THEN -5 ELSE IF tz = "east" THEN 2 ELSE 0

\* new Date(year, month, day).getTime(): local midnight of that day
LocalMidnight(y, m, d) == 24 * DayNumber([y |-> y, m |-> m, d |-> d])

\* new Date(year, month + 1, 0): local midnight of the last day of the month
LastDayOfMonth(y, m) == LocalMidnight(y, m, DaysInMonth(y, m))

\* new Date(lumpSum.date).getTime(), as an instant of local time
LumpInstant(str) == 24 * UtcDay(str) + TzOffsetHours

\* a period is [view, y, n]: n is the quarter or the month, 0 in a year
\* startDate and endDate of getLumpSumsForPeriod (lines 109-121)
PeriodStartDate(period) ==
    IF period.view = "monthly" THEN LocalMidnight(period.y, period.n, 1)
    ELSE IF period.view = "quarterly" THEN LocalMidnight(period.y, period.n * 3, 1)
    ELSE LocalMidnight(period.y, 0, 1)

PeriodEndDate(period) ==
    IF period.view = "monthly" THEN LastDayOfMonth(period.y, period.n)
    ELSE IF period.view = "quarterly" THEN LastDayOfMonth(period.y, period.n * 3 + 2)
    ELSE LastDayOfMonth(period.y, 11)

\* the filter of lines 123-126
LumpInPeriod(lumpSum, period) ==
    /\ LumpInstant(lumpSum.date) >= PeriodStartDate(period)
    /\ LumpInstant(lumpSum.date) <= PeriodEndDate(period)

SumAmounts(lumps, type) ==
    SumSeq([k \in DOMAIN lumps |-> IF lumps[k].type = type THEN lumps[k].amount ELSE 0])

getLumpSumsForPeriod(period) ==
    LET relevantLumpSums ==
            SelectSeq(timelineProfile.lumpSums, LAMBDA l : LumpInPeriod(l, period))
    IN  [income |-> SumAmounts(relevantLumpSums, "income"),
         expenses |-> SumAmounts(relevantLumpSums, "expense"),
         items |-> relevantLumpSums]

\* the totals of lines 82-89
totalIncome == SumValues(timelineProfile.income)
totalExpenses == SumValues(timelineProfile.expenses)
totalSavings == SumValues(timelineProfile.savings)
totalDebtPayments == SumValues(timelineProfile.debts)

\* the number of rows of a view (lines 151, 208-209, 268-269)
TimelineYears ==
    IF viewMode = "yearly" THEN projectionYears
    ELSE IF viewMode = "quarterly" THEN Min(projectionYears, 3)
    ELSE Min(projectionYears, 2)

PeriodsPerYear ==
    IF viewMode = "yearly" THEN 1 ELSE IF viewMode = "quarterly" THEN 4 ELSE 12

\* the period of row number index, counted from 0
PeriodOfIndex(index) ==
    [view |-> viewMode,
     y |-> clock.y + (index \div PeriodsPerYear),
     n |-> index % PeriodsPerYear]

\* incomeVariability, expenseVariability and uncertaintyFactor of a row, in
\* thousandths (lines 156-158, 215-217, 275-277)
IncomeVariability(index) ==
    IF viewMode = "yearly" THEN 100 + 20 * index
    ELSE IF viewMode = "quarterly" THEN 50 + 5 * index
    ELSE 20 + 2 * index

ExpenseVariability(index) ==
    IF viewMode = "yearly" THEN 80 + 15 * index
    ELSE IF viewMode = "quarterly" THEN 40 + 4 * index
    ELSE 20 + 2 * index

UncertaintyFactor(index) ==
    IF viewMode = "yearly" THEN Min(150 + 50 * index, 350)
    ELSE IF viewMode = "quarterly" THEN Min(100 + 10 * index, 250)
    ELSE Min(50 + 3 * index, 150)

\* the row of one period (lines 160-201, 219-258, 279-318); cum is the three
\* cumulative savings before the row
TimelineRow(index, cum) ==
    LET period == PeriodOfIndex(index)
        months == 12 \div PeriodsPerYear
        lumps == getLumpSumsForPeriod(period)
        baseIncome == totalIncome * months + lumps.income
        baseExpenses == totalExpenses * months + lumps.expenses
        savings == totalSavings * months
        debtPayments == totalDebtPayments * months
        optimisticNetCashflow ==
            MulDiv(baseIncome, 1000 + IncomeVariability(index), 1000)
              - MulDiv(baseExpenses, 1000 - ExpenseVariability(index), 1000)
              - savings - debtPayments
        pessimisticNetCashflow ==
            MulDiv(baseIncome, 1000 - IncomeVariability(index), 1000)
              - MulDiv(baseExpenses, 1000 + ExpenseVariability(index), 1000)
              - savings - debtPayments
        netCashflow == baseIncome - baseExpenses - savings - debtPayments
        currentPeriod ==
            IF viewMode = "yearly" THEN 0
            ELSE IF viewMode = "quarterly" THEN clock.m \div 3
            ELSE clock.m
    IN  [period |-> period,
         income |-> baseIncome,
         expenses |-> baseExpenses,
         savings |-> savings,
         debtPayments |-> debtPayments,
         netCashflow |-> netCashflow,
         cumulativeSavings |-> cum.base + savings + Max(0, netCashflow),
         cumulativeSavingsOptimistic |->
             cum.optimistic + savings + Max(0, optimisticNetCashflow),
         cumulativeSavingsPessimistic |->
             cum.pessimistic + savings + Max(0, pessimisticNetCashflow),
         uncertaintyFactor |-> UncertaintyFactor(index),
         lumpSums |-> lumps,
         isCurrent |-> (period.y = clock.y /\ period.n = currentPeriod),
         isFuture |-> (period.y > clock.y \/ period.n > currentPeriod)]

\* the lump sums, the views and the ranges that the model covers
TimelineDates ==
    { DateStr(2025, 1, 1), DateStr(2025, 3, 31), DateStr(2025, 6, 15),
      DateStr(2025, 12, 31), DateStr(2026, 4, 1) }

TimelineLumps ==
    { Lump(1000, d, "income") : d \in TimelineDates }
      \cup { Lump(400, DateStr(2025, 6, 15), "expense") }

ViewModes == { "yearly", "quarterly", "monthly" }

\* two of the options of the selector of lines 359-363
ProjectionYearsOptions == { 3, 5 }

TimelineProfiles ==
    { [income |-> [salary |-> 3000], expenses |-> [housing |-> 2000],
       savings |-> [general_savings |-> 200], debts |-> [credit_cards |-> 100],
       lumpSums |-> ls, period |-> "monthly", currency |-> "USD"] :
        ls \in SeqsUpTo(TimelineLumps, MaxLumpSums) }

\* the dashboard and the supervisor as they are constructed
DashboardIdle ==
    /\ financialData = InitialProfile
    /\ globalFinancialData = InitialProfile
    /\ timeRange = 12
    /\ calls = 0
    /\ RenderIdle

InitTimeline ==
    /\ timelineProfile \in TimelineProfiles
    /\ viewMode \in ViewModes
    /\ projectionYears \in ProjectionYearsOptions
    /\ tz \in { "west", "utc", "east" }
    /\ clock = MidJanuary
    /\ tpc = "idle"
    /\ timelineData = << >>
    /\ cumulative = NoCumulative
    /\ DashboardIdle
    /\ SupervisorIdle

\* what generateTimelineData leaves alone
timelineFrame ==
    << financialData, timeRange, currentDate, tz, pc, i, data,
       cumulativeAvailableCash, currentDebts, currentInvestmentBalance,
       currentInvestmentBalanceLow, currentInvestmentBalanceHigh, loc,
       lumpHits, goalHits, debtAnalysis, payoff, clock, run, chartData,
       goalsCurrentDate, goalsData, globalFinancialData, deliveries, calls,
       supervisorVars, timelineProfile, viewMode, projectionYears >>

\* the render calls generateTimelineData (line 326)
GenerateTimelineData ==
    /\ tpc = "idle"
    /\ tpc' = "rows"
    /\ timelineData' = << >>
    /\ cumulative' = NoCumulative
    /\ UNCHANGED timelineFrame

\* the callback of Array.from, or one iteration of the inner loop
TimelineStep ==
    /\ tpc = "rows"
    /\ Len(timelineData) < TimelineYears * PeriodsPerYear
    /\ \E row \in { TimelineRow(Len(timelineData), cumulative) } :
          /\ timelineData' = Append(timelineData, row)
          /\ cumulative' = [base |-> row.cumulativeSavings,
                            optimistic |-> row.cumulativeSavingsOptimistic,
                            pessimistic |-> row.cumulativeSavingsPessimistic]
    /\ UNCHANGED << tpc, timelineFrame >>

\* generateTimelineData returns its rows
TimelineReturn ==
    /\ tpc = "rows"
    /\ Len(timelineData) = TimelineYears * PeriodsPerYear
    /\ tpc' = "done"
    /\ UNCHANGED << timelineData, cumulative, timelineFrame >>

NextTimeline ==
    \/ GenerateTimelineData
    \/ TimelineStep
    \/ TimelineReturn

TimelineSpec == InitTimeline /\ [][NextTimeline]_vars

-----------------------------------------------------------------------------
(* Helpers of the properties *)

\* months since year 0 of a period label or a date
MonthIndex(p) == p.y * 12 + p.m

\* the loop has run iteration loc.i for a profile with data
InMonth == loc.kind = "month"

\* the iteration found the cash negative at the liquidation step
LiquidationFired == InMonth /\ loc.before.cash < 0

cashShortfallOfMonth == -loc.before.cash

totalInvestmentsOfProfile == SumValues(financialData.investments)

\* the payment does not exceed the exact monthly interest on the balance
PaymentWithinInterest(debt, balance) ==
    debt.minimumPayment * 100 * 12 <= balance * debt.interestRate

-----------------------------------------------------------------------------
(* C1: in every period the cash balance changes, before the liquidation    *)
(* step, by income + lumpInflow - expenses - lumpOutflow - goalOutflow -   *)
(* debtPayments - investmentContribution: a goal is subtracted once.       *)
C1_CashDeltaOnce ==
    InMonth =>
        loc.before.cash - loc.cashStart =
            SumValues(financialData.income) + loc.lumpIn - loc.baseExpenses
              - loc.lumpOut - loc.goalOut - SumSeq(loc.payments)
              - totalInvestmentsOfProfile

-----------------------------------------------------------------------------
(* C2, as the spec has it: with liquidated = min(expected, shortfall),     *)
(* each scenario balance is reduced by liquidated and clamped at 0, in     *)
(* both branches.                                                           *)
C2_UniformLiquidation ==
    LiquidationFired =>
        LET liquidated == Min(loc.before.expected, cashShortfallOfMonth)
        IN  /\ currentInvestmentBalance = Max(0, loc.before.expected - liquidated)
            /\ currentInvestmentBalanceLow = Max(0, loc.before.low - liquidated)
            /\ currentInvestmentBalanceHigh = Max(0, loc.before.high - liquidated)

(* C2, amended: when the expected balance covers the shortfall each        *)
(* scenario balance is reduced by the shortfall and clamped at 0; when it  *)
(* does not, all three balances become 0.                                  *)
C2_LiquidationByBranch ==
    LiquidationFired =>
        IF loc.before.expected >= cashShortfallOfMonth
        THEN /\ currentInvestmentBalance = loc.before.expected - cashShortfallOfMonth
             /\ currentInvestmentBalanceLow =
                    Max(0, loc.before.low - cashShortfallOfMonth)
             /\ currentInvestmentBalanceHigh =
                    Max(0, loc.before.high - cashShortfallOfMonth)
        ELSE /\ currentInvestmentBalance = 0
             /\ currentInvestmentBalanceLow = 0
             /\ currentInvestmentBalanceHigh = 0

\* a liquidation that the expected balance did not cover, with an optimistic
\* balance above the expected one
C2_Witness ==
    /\ LiquidationFired
    /\ loc.before.expected > 0
    /\ loc.before.expected < cashShortfallOfMonth
    /\ loc.before.high > loc.before.expected
    /\ currentInvestmentBalanceHigh = 0
    /\ data[Len(data)].investmentsHigh = 0

-----------------------------------------------------------------------------
(* C3: after the liquidation step the cash is min(0, cashBefore +          *)
(* liquidated): 0 when the expected balance covered the shortfall,         *)
(* negative otherwise; at the end of a period cash < 0 implies that the    *)
(* expected investment balance is 0.                                       *)
C3_CashAfterLiquidation ==
    /\ LiquidationFired =>
          /\ cumulativeAvailableCash =
                Min(0, loc.before.cash + Min(loc.before.expected, cashShortfallOfMonth))
          /\ (loc.before.expected >= cashShortfallOfMonth) = (cumulativeAvailableCash = 0)
    /\ cumulativeAvailableCash < 0 => currentInvestmentBalance = 0

\* investments were liquidated in full and the cash is still negative
C3_Witness ==
    /\ LiquidationFired
    /\ loc.before.expected > 0
    /\ cumulativeAvailableCash < 0
    /\ cumulativeAvailableCash = loc.before.cash + loc.before.expected

-----------------------------------------------------------------------------
(* C4: in every snapshot investmentsHigh >= investments >= investmentsLow, *)
(* also in and after the periods in which investments were liquidated.     *)
C4_ScenarioOrder ==
    \A k \in DOMAIN data :
        /\ data[k].investmentsHigh >= data[k].investments
        /\ data[k].investments >= data[k].investmentsLow

\* a liquidation that left three distinct positive balances
C4_Witness ==
    /\ LiquidationFired
    /\ data[Len(data)].investmentsHigh > data[Len(data)].investments
    /\ data[Len(data)].investments > data[Len(data)].investmentsLow
    /\ data[Len(data)].investmentsLow > 0

-----------------------------------------------------------------------------
(* C5: no scenario balance is negative in any snapshot.                    *)
C5_BalancesNonNegative ==
    \A k \in DOMAIN data :
        /\ data[k].investments >= 0
        /\ data[k].investmentsLow >= 0
        /\ data[k].investmentsHigh >= 0

\* a liquidation whose shortfall exceeded the pessimistic balance while the
\* expected balance covered it: the clamp at 0 acted
C5_Witness ==
    /\ LiquidationFired
    /\ loc.before.expected >= cashShortfallOfMonth
    /\ loc.before.low < cashShortfallOfMonth
    /\ currentInvestmentBalanceLow = 0

-----------------------------------------------------------------------------
(* C6: once a debt's remaining balance is 0, the debt adds 0 to            *)
(* totalDebtPayments in every later period and its balance stays 0.        *)
C6_PaidOffStaysOut ==
    InMonth =>
        \A k \in DOMAIN currentDebts :
            loc.debtsStart[k].remainingBalance = 0 =>
                /\ currentDebts[k].remainingBalance = 0
                /\ loc.payments[k] = 0

\* a debt that started positive is paid off, and another is still paying
C6_Witness ==
    /\ InMonth
    /\ \E k \in DOMAIN currentDebts :
          /\ currentDebts[k].totalBalance > 0
          /\ currentDebts[k].minimumPayment > 0
          /\ loc.debtsStart[k].remainingBalance = 0
    /\ data[Len(data)].totalDebtPayments > 0

-----------------------------------------------------------------------------
(* C7: a debt whose payment exceeds the month's interest strictly          *)
(* decreases from each future period to the next until it is 0, and then   *)
(* stays 0.                                                                *)
C7_StrictDecrease ==
    (InMonth /\ loc.i > 0) =>
        \A k \in DOMAIN currentDebts :
            LET old == loc.debtsStart[k].remainingBalance
                new == currentDebts[k].remainingBalance
            IN  /\ (old > 0 /\ currentDebts[k].minimumPayment >
                                 MonthlyInterest(old, currentDebts[k].interestRate))
                      => (new < old /\ new >= 0)
                /\ old = 0 => new = 0

\* a future month in which an interest-bearing debt went down but not to 0
C7_Witness ==
    /\ InMonth
    /\ loc.i > 1
    /\ \E k \in DOMAIN currentDebts :
          /\ currentDebts[k].interestRate > 0
          /\ currentDebts[k].remainingBalance > 0
          /\ currentDebts[k].remainingBalance < loc.debtsStart[k].remainingBalance
          /\ loc.debtsStart[k].remainingBalance < currentDebts[k].totalBalance

-----------------------------------------------------------------------------
-----------------------------------------------------------------------------
(* C9: every lump sum and every goal dated in a month the projection       *)
(* covers is counted in exactly one snapshot, for every current date.      *)
(* (Stated for profiles with recurring data, for which the filters run.)   *)
CoveredMonth(str) ==
    /\ MonthIndex(ParseDate(str)) >= MonthIndex(currentDate) - HistoryMonths
    /\ MonthIndex(ParseDate(str)) <= MonthIndex(currentDate) + monthsForward

C9_CountedOnce ==
    (pc \notin { "start", "loop" } /\ hasAnyData) =>
        /\ \A k \in DOMAIN lumpHits :
              CoveredMonth(financialData.lumpSums[k].date) => lumpHits[k] = 1
        /\ \A k \in DOMAIN goalHits :
              CoveredMonth(financialData.goals[k].targetDate) => goalHits[k] = 1

-----------------------------------------------------------------------------
(* C10: consecutive snapshots are for consecutive calendar months, for     *)
(* every current date.                                                     *)
C10_ConsecutiveMonths ==
    \A k \in DOMAIN data :
        k > 1 => MonthIndex(data[k].period) = MonthIndex(data[k - 1].period) + 1

-----------------------------------------------------------------------------
(* C11: in every snapshot netWorth = max(0, cash) + expected investment    *)
(* balance - totalDebtBalance, the clamped cash being the availableCash of *)
(* the same snapshot.                                                      *)
C11_NetWorthFromClampedCash ==
    \A k \in DOMAIN data :
        data[k].netWorth =
            data[k].availableCash + data[k].investments - data[k].totalDebtBalance

(* C11, amended: netWorth is the running cash, which may be negative,     *)
(* plus the expected investment balance minus totalDebtBalance; it equals  *)
(* the value computed from availableCash only while the cash is not        *)
(* negative, and is lower by the uncovered shortfall otherwise.            *)
C11_NetWorthFromRunningCash ==
    /\ InMonth =>
          data[Len(data)].netWorth =
              cumulativeAvailableCash + currentInvestmentBalance
                - data[Len(data)].totalDebtBalance
    /\ \A k \in DOMAIN data :
          /\ data[k].netWorth <=
                data[k].availableCash + data[k].investments - data[k].totalDebtBalance
          /\ data[k].availableCash > 0 =>
                data[k].netWorth =
                    data[k].availableCash + data[k].investments - data[k].totalDebtBalance

\* a snapshot taken while the cash was negative, with a debt outstanding
C11_Witness ==
    /\ InMonth
    /\ cumulativeAvailableCash < 0
    /\ data[Len(data)].availableCash = 0
    /\ data[Len(data)].totalDebtBalance > 0
    /\ data[Len(data)].netWorth =
          cumulativeAvailableCash - data[Len(data)].totalDebtBalance

-----------------------------------------------------------------------------
(* C12 *)
\* the profile holds recurring income I and expenses E, I >= E, nothing else
OnlyIncomeAndExpenses ==
    /\ financialData.savings = Empty
    /\ financialData.investments = Empty
    /\ financialData.debts = << >>
    /\ financialData.lumpSums = << >>
    /\ financialData.goals = << >>
    /\ SumValues(financialData.income) >= SumValues(financialData.expenses)

recurringNet == SumValues(financialData.income) - SumValues(financialData.expenses)

\* the forward period of row r of data: the loop starts 12 months back
ForwardPeriod(r) == r - 13

(* C12, as the spec has it: for a profile with only recurring income I and *)
(* expenses E, I >= E, the snapshot of forward period k has cash and net   *)
(* worth k * (I - E).                                                      *)
C12_CashIsKTimesNet ==
    OnlyIncomeAndExpenses =>
        \A r \in DOMAIN data :
            ForwardPeriod(r) >= 1 =>
                /\ data[r].availableCash = ForwardPeriod(r) * recurringNet
                /\ data[r].netWorth = ForwardPeriod(r) * recurringNet

(* C12, amended: the cash accumulates from zero over the 12 past months    *)
(* and the current month as well, so that the snapshot of forward period k *)
(* has cash and net worth (k + 13) * (I - E): 50000 after period 12 for    *)
(* I = 5000, E = 3000.                                                     *)
C12_CashIsKPlus13TimesNet ==
    OnlyIncomeAndExpenses =>
        \A r \in DOMAIN data :
            /\ data[r].availableCash = (ForwardPeriod(r) + 13) * recurringNet
            /\ data[r].netWorth = (ForwardPeriod(r) + 13) * recurringNet

\* the example of the spec, after forward period 12
C12_Witness ==
    /\ OnlyIncomeAndExpenses
    /\ SumValues(financialData.income) = 5000
    /\ SumValues(financialData.expenses) = 3000
    /\ Len(data) = 25
    /\ ForwardPeriod(Len(data)) = 12
    /\ data[Len(data)].availableCash = 50000
    /\ data[Len(data)].netWorth = 50000
-----------------------------------------------------------------------------
(* C13: the payoff loop of getDebtAnalysis runs at most 1000 iterations    *)
(* for every debt; its result is Infinity exactly when an iteration found  *)
(* a principal payment of 0 on a positive balance, and the number of       *)
(* iterations it ran otherwise.                                            *)
C13_PayoffEstimator ==
    /\ pc = "payoff" => payoff.steps <= PayoffLimit
    /\ \A k \in DOMAIN debtAnalysis :
          /\ debtAnalysis[k].steps <= PayoffLimit
          /\ (debtAnalysis[k].payoffMonths = Infinity) = debtAnalysis[k].zeroStep
          /\ debtAnalysis[k].payoffMonths # Infinity =>
                debtAnalysis[k].payoffMonths = debtAnalysis[k].steps

\* the analysis of a debt that the limit cut short, and of no other kind
C13_Witness ==
    /\ pc = "done"
    /\ \E k \in DOMAIN debtAnalysis :
          /\ debtAnalysis[k].payoffMonths = PayoffLimit
          /\ debtAnalysis[k].steps = PayoffLimit
          /\ debtAnalysis[k].balanceLeft > 0
-----------------------------------------------------------------------------
(* C14: a profile with a negative debt balance or monthly amount, or an    *)
(* APR outside [0, 100], is rejected before the period loop starts: no     *)
(* snapshot, not even a partial sequence, is produced for it.              *)
NegativeAmount(obj) == \E key \in DOMAIN obj : obj[key] < 0

Malformed(fd) ==
    \/ \E k \in DOMAIN fd.debts :
          \/ fd.debts[k].totalBalance < 0
          \/ fd.debts[k].minimumPayment < 0
          \/ fd.debts[k].interestRate < 0
          \/ fd.debts[k].interestRate > 100
    \/ NegativeAmount(fd.income)
    \/ NegativeAmount(fd.expenses)
    \/ NegativeAmount(fd.savings)
    \/ NegativeAmount(fd.investments)

C14_MalformedRejected == Malformed(financialData) => data = << >>
-----------------------------------------------------------------------------
(* C15 *)
\* the second call of generateChartData, made by getGoalsData, has returned
SecondRunDone == run = 2 /\ pc # "loop"

-----------------------------------------------------------------------------
(* C16: a projection run (generateChartData, getGoalsData,                 *)
(* getDebtAnalysis) leaves the profile as it was: no step of the render    *)
(* changes financialData; remaining balances live in the run's copies.     *)
C16_ProfileUnchanged ==
    [][pc' # "start" => financialData' = financialData]_vars

\* the render is over, the run's copy of a debt has moved away from the
\* balance of the profile and the debt was analysed
C16_Witness ==
    /\ pc = "done"
    /\ \E k \in DOMAIN currentDebts :
          /\ currentDebts[k].remainingBalance < financialData.debts[k].totalBalance
          /\ currentDebts[k].totalBalance = financialData.debts[k].totalBalance
    /\ Len(debtAnalysis) = Len(financialData.debts)
-----------------------------------------------------------------------------
(* C19: for every goal projectedCashAtTarget = currentCashBalance +        *)
(* monthlyCashAccumulation * max(0, monthsUntilTarget), where              *)
(* currentCashBalance is the cash of the current period (now) and          *)
(* monthlyCashAccumulation = total savings + max(0, net cash delta of the  *)
(* last snapshot).                                                         *)
\* the snapshot of the current month is the one of iteration i = 0
cashOfCurrentPeriod == data[HistoryMonths + 1].availableCash

C19_ProjectedFromCurrentCash ==
    \A k \in DOMAIN goalsData :
        /\ goalsData[k].monthlyCashAccumulation =
              calculateTotals.totalSavings + Max(0, data[Len(data)].surplus)
        /\ goalsData[k].projectedCashAtTarget =
              cashOfCurrentPeriod
                + goalsData[k].monthlyCashAccumulation * goalsData[k].monthsUntilTarget

-----------------------------------------------------------------------------
(* C20: every goal gets exactly one status: "overdue" if its target date   *)
(* is before now, else "achievable" if projectedCashAtTarget >=            *)
(* targetAmount, else "shortfall"; a goal that is not overdue has status   *)
(* "shortfall" exactly when its cashShortfall = max(0, targetAmount -      *)
(* projectedCashAtTarget) is greater than 0.                               *)
C20_FeasibilityStatus ==
    \A k \in DOMAIN goalsData :
        LET g == goalsData[k]
            before == DaysUntil(g.goal.targetDate, goalsCurrentDate, loc.shift) <= 0
        IN  /\ g.feasibilityStatus =
                  (IF before THEN "overdue"
                   ELSE IF g.projectedCashAtTarget >= g.goal.targetAmount
                        THEN "achievable" ELSE "shortfall")
            /\ g.cashShortfall = Max(0, g.goal.targetAmount - g.projectedCashAtTarget)
            /\ ~before => ((g.feasibilityStatus = "shortfall") = (g.cashShortfall > 0))

\* a goal still ahead that the projected cash does not reach
C20_Witness ==
    /\ pc = "done"
    /\ \E k \in DOMAIN goalsData :
          /\ goalsData[k].daysUntil > 0
          /\ goalsData[k].monthsUntilTarget > 0
          /\ goalsData[k].feasibilityStatus = "shortfall"
          /\ goalsData[k].cashShortfall > 0
          /\ goalsData[k].projectedCashAtTarget > 0
-----------------------------------------------------------------------------
(* C17: every update gives the dashboard a new version of the profile: a   *)
(* value delivered by one extract_financial_info call is not changed by a  *)
(* later call, and each delivery is an object distinct from the            *)
(* accumulator and from the earlier deliveries.                            *)
\* what the object of a delivery holds now
Deref(ref) == IF ref = AccumulatorRef THEN globalFinancialData ELSE InitialProfile

C17_NewVersionPerUpdate ==
    \A k \in DOMAIN deliveries :
        /\ Deref(deliveries[k].ref) = deliveries[k].value
        /\ deliveries[k].ref # AccumulatorRef
        /\ \A j \in DOMAIN deliveries : j # k => deliveries[j].ref # deliveries[k].ref

-----------------------------------------------------------------------------
(* C18: an extract_financial_info call is an additive merge: categories    *)
(* of income, expenses, savings and investments that the arguments do not  *)
(* name keep their values, riskTolerance and currency are unchanged when   *)
(* absent, and every stored debt, goal and lump sum is still there,        *)
(* unchanged and in the same order, the new ones appended after them.      *)
KeptCategory(before, after, args, cat) ==
    /\ \A key \in DOMAIN before[cat] :
          /\ key \in DOMAIN after[cat]
          /\ (cat \notin DOMAIN args \/ key \notin DOMAIN args[cat]) =>
                after[cat][key] = before[cat][key]
    /\ \A key \in DOMAIN after[cat] :
          key \notin DOMAIN before[cat] => (cat \in DOMAIN args /\ key \in DOMAIN args[cat])

KeptList(before, after, args, list) ==
    /\ Len(after[list]) =
          Len(before[list]) + (IF list \in DOMAIN args THEN Len(args[list]) ELSE 0)
    /\ SubSeq(after[list], 1, Len(before[list])) = before[list]

C18_AdditiveMerge ==
    loc.kind = "extract" =>
        /\ \A cat \in { "income", "expenses", "savings", "investments" } :
              KeptCategory(loc.before, globalFinancialData, loc.args, cat)
        /\ \A field \in { "riskTolerance", "currency" } :
              field \notin DOMAIN loc.args =>
                  globalFinancialData[field] = loc.before[field]
        /\ \A list \in { "debts", "goals", "lumpSums" } :
              KeptList(loc.before, globalFinancialData, loc.args, list)
        /\ globalFinancialData.period = loc.before.period

\* a call that names one category of income and adds a debt and a goal to
\* a profile that already holds another category and a debt
C18_Witness ==
    /\ loc.kind = "extract"
    /\ calls = 2
    /\ "salary" \in DOMAIN loc.before.income
    /\ "income" \in DOMAIN loc.args
    /\ "salary" \notin DOMAIN loc.args.income
    /\ globalFinancialData.income.salary = loc.before.income.salary
    /\ "bonus" \in DOMAIN globalFinancialData.income
    /\ Len(loc.before.debts) = 1
    /\ Len(globalFinancialData.debts) = 2
    /\ globalFinancialData.debts[1] = loc.before.debts[1]
    /\ Len(globalFinancialData.goals) = 1

-----------------------------------------------------------------------------
(* C21: getGoalsData returns one entry per goal of the profile, ordered by *)
(* targetDate ascending, goals with equal dates keeping their input order, *)
(* whatever the order of the goals in the profile.                         *)
\* the goals of the entries of getGoalsData, in the order returned
ReturnedGoals == [k \in DOMAIN goalsData |-> goalsData[k].goal]

\* the goals of a sequence that are dated str, in the order of the sequence
DatedOn(gs, str) == SelectSeq(gs, LAMBDA g : g.targetDate = str)

C21_GoalsSortedStable ==
    pc \in { "analysis", "payoff", "done" } =>
        /\ Len(goalsData) = Len(financialData.goals)
        /\ \A k \in DOMAIN goalsData :
              k > 1 => UtcDay(goalsData[k - 1].goal.targetDate)
                         <= UtcDay(goalsData[k].goal.targetDate)
        /\ \A k \in DOMAIN financialData.goals :
              DatedOn(ReturnedGoals, financialData.goals[k].targetDate) =
                  DatedOn(financialData.goals, financialData.goals[k].targetDate)

\* three goals, the one of the earliest date in the middle and the other two
\* of one date: the sort moved the earliest to the front and kept the tie
C21_Witness ==
    /\ pc = "done"
    /\ financialData.goals =
          << Goal(800, DateStr(2025, 6, 20)), Goal(500, DateStr(2025, 3, 1)),
             Goal(300, DateStr(2025, 6, 20)) >>
    /\ ReturnedGoals =
          << Goal(500, DateStr(2025, 3, 1)), Goal(800, DateStr(2025, 6, 20)),
             Goal(300, DateStr(2025, 6, 20)) >>

-----------------------------------------------------------------------------
(* C22: a debt is never extinguished without its payment being counted:    *)
(* in the period in which an account's remaining balance goes from         *)
(* positive to 0 the account still adds its payment to totalDebtPayments,  *)
(* and the contributions to totalDebtPayments of a debt that the           *)
(* projection pays off add up to at least its initial balance.             *)
\* the total of totalDebtPayments over the snapshots taken so far
PaymentsCounted == SumSeq([r \in DOMAIN data |-> data[r].totalDebtPayments])

C22_FinalPaymentCounted ==
    InMonth =>
        /\ \A k \in DOMAIN currentDebts :
              (/\ loc.debtsStart[k].remainingBalance > 0
               /\ currentDebts[k].remainingBalance = 0)
              => loc.payments[k] = currentDebts[k].minimumPayment
        /\ (/\ Len(currentDebts) = 1
            /\ currentDebts[1].totalBalance > 0
            /\ currentDebts[1].remainingBalance = 0)
           => PaymentsCounted >= currentDebts[1].totalBalance

-----------------------------------------------------------------------------
(* C23: for every debt, amortising or not, the balance that the debt       *)
(* analysis displays, calculateDebtProjection(debt, N).balance, is the     *)
(* remaining balance that the loop of generateChartData holds for the      *)
(* debt after N future months; for a debt whose payment does not exceed    *)
(* the interest both stay at the initial balance and never grow above it.  *)
\* (N is the time range: the analysis projects timeRange months and the
\* loop has run monthsForward future months when the render is over.)
C23_ProjectionMatchesStepper ==
    pc = "done" =>
        \A k \in DOMAIN debtAnalysis :
            ~Malformed(financialData) =>
            /\ debtAnalysis[k].projection.balance = currentDebts[k].remainingBalance
            /\ (/\ currentDebts[k].totalBalance > 0
                /\ PaymentWithinInterest(currentDebts[k], currentDebts[k].totalBalance))
               => /\ debtAnalysis[k].projection.balance = currentDebts[k].totalBalance
                  /\ currentDebts[k].remainingBalance = currentDebts[k].totalBalance

-----------------------------------------------------------------------------
(* C24 *)
\* getDebtAnalysis returned a month count, not Infinity, for a debt with a
\* positive balance
FinitePayoff(a) == a.payoffMonths # Infinity /\ a.debt.totalBalance > 0

(* C24, as the spec has it: whenever the payoff estimator returns a finite *)
(* month count n for a debt, n is the least number of debt steps of the    *)
(* period loop after which the balance is 0: n steps give 0 and n - 1      *)
(* steps give a positive balance, also for debts that need 1000 or more    *)
(* steps.                                                                  *)
C24_LeastSteps ==
    \A k \in DOMAIN debtAnalysis :
        FinitePayoff(debtAnalysis[k]) =>
            /\ debtAnalysis[k].stepper = 0
            /\ debtAnalysis[k].stepperPrev > 0

(* C24, amended: a month count n below the limit of 1000 is the least      *)
(* number of debt steps after which the balance is 0.  The count 1000 is   *)
(* returned as well for every debt that needs more than 1000 steps: it     *)
(* says only that 999 steps leave a positive balance.                      *)
C24_LeastStepsBelowLimit ==
    \A k \in DOMAIN debtAnalysis :
        FinitePayoff(debtAnalysis[k]) =>
            /\ debtAnalysis[k].payoffMonths <= PayoffLimit
            /\ debtAnalysis[k].stepperPrev > 0
            /\ debtAnalysis[k].payoffMonths < PayoffLimit => debtAnalysis[k].stepper = 0
            /\ debtAnalysis[k].stepper > 0 => debtAnalysis[k].payoffMonths = PayoffLimit

\* an interest-bearing debt that takes more than one month to pay off
C24_Witness ==
    /\ pc = "done"
    /\ \E k \in DOMAIN debtAnalysis :
          /\ FinitePayoff(debtAnalysis[k])
          /\ debtAnalysis[k].debt.interestRate > 0
          /\ debtAnalysis[k].payoffMonths > 1
          /\ debtAnalysis[k].payoffMonths < PayoffLimit
          /\ debtAnalysis[k].stepper = 0
          /\ debtAnalysis[k].stepperPrev > 0
          /\ debtAnalysis[k].stepperPrev < debtAnalysis[k].debt.totalBalance

-----------------------------------------------------------------------------
(* C26 *)
\* the call of extract_financial_info that has just run gave debt number n
\* of its arguments without a minimumPayment, with a positive balance and a
\* positive interest rate
EstimatedDebt(n) ==
    /\ "minimumPayment" \notin DOMAIN loc.args.debts[n]
    /\ loc.args.debts[n].totalBalance > 0
    /\ loc.args.debts[n].interestRate > 0

\* the debt as it is stored: the new debts follow the ones held before
StoredDebt(n) == globalFinancialData.debts[Len(loc.before.debts) + n]

\* small debts without a payment, as the map callback stores them
SmallEstimatedDebts ==
    { NewDebt([name |-> "small", totalBalance |-> b, interestRate |-> r], 1, 1) :
        b \in 1..MaxEstimateBalance, r \in 1..MaxEstimateRate }

\* twelve hundred times balance * rate / 100 / 12 + 0.02 * balance
EstimateTimes1200(debt) ==
    debt.totalBalance * debt.interestRate + 24 * debt.totalBalance

(* C26, as the claim has it: a debt submitted without a minimumPayment,    *)
(* with a positive balance and rate, is stored with minimumPayment =       *)
(* round(balance * rate / 100 / 12 + 0.02 * balance), and this estimate is *)
(* strictly greater than the first month's interest, so that a debt with   *)
(* an estimated payment is never non-amortising.                           *)
C26_EstimateAboveInterest ==
    (loc.kind = "extract" /\ "debts" \in DOMAIN loc.args) =>
        \A n \in DOMAIN loc.args.debts :
            EstimatedDebt(n) =>
                /\ 2 * 1200 * StoredDebt(n).minimumPayment
                      > 2 * EstimateTimes1200(loc.args.debts[n]) - 1200
                /\ 2 * 1200 * StoredDebt(n).minimumPayment
                      <= 2 * EstimateTimes1200(loc.args.debts[n]) + 1200
                /\ ~PaymentWithinInterest(StoredDebt(n), StoredDebt(n).totalBalance)

(* C26, amended: the stored minimumPayment is the estimate rounded to the  *)
(* nearest whole unit; it is strictly greater than the first month's       *)
(* interest whenever the balance is at least 25, for which 2 per cent of   *)
(* the balance make up for the rounding.  For a smaller balance the        *)
(* rounding can give an estimate that does not exceed the interest.        *)
C26_EstimateAboveInterestFrom25 ==
    (loc.kind = "extract" /\ "debts" \in DOMAIN loc.args) =>
        \A n \in DOMAIN loc.args.debts :
            EstimatedDebt(n) =>
                /\ 2 * 1200 * StoredDebt(n).minimumPayment
                      > 2 * EstimateTimes1200(loc.args.debts[n]) - 1200
                /\ 2 * 1200 * StoredDebt(n).minimumPayment
                      <= 2 * EstimateTimes1200(loc.args.debts[n]) + 1200
                /\ StoredDebt(n).totalBalance >= 25 =>
                      ~PaymentWithinInterest(StoredDebt(n), StoredDebt(n).totalBalance)
                /\ \A d \in SmallEstimatedDebts :
                      d.totalBalance >= 25 => ~PaymentWithinInterest(d, d.totalBalance)

\* a debt of 2500 at 22 per cent without a payment: the estimate is 96
C26_Witness ==
    /\ loc.kind = "extract"
    /\ "debts" \in DOMAIN loc.args
    /\ \E n \in DOMAIN loc.args.debts :
          /\ EstimatedDebt(n)
          /\ StoredDebt(n).totalBalance = 2500
          /\ StoredDebt(n).minimumPayment = 96
          /\ MonthlyInterest(2500, StoredDebt(n).interestRate) = 45
    /\ \E d \in SmallEstimatedDebts :
          /\ d.totalBalance = 25
          /\ d.interestRate = 48
          /\ d.minimumPayment = 2

-----------------------------------------------------------------------------
(* C30: a lump sum or a goal dated in a month that the projection covers   *)
(* is reflected by the snapshot of that month (lumpSums is not 0, and the  *)
(* cash or the net worth differs from the snapshot before), even when the  *)
(* profile has no recurring income, expenses, savings, investments or debt *)
(* payments.  (Stated for the profiles without recurring amounts.)         *)
\* row r of data is the snapshot of the month of the date string str
SnapshotOf(r, str) == data[r].period = MonthName(ParseDate(str))

\* row r shows an event: lumpSums is set and the cash or the net worth moved
ReflectsEvent(r) ==
    /\ data[r].lumpSums # 0
    /\ \/ data[r].availableCash # (IF r > 1 THEN data[r - 1].availableCash ELSE 0)
       \/ data[r].netWorth # (IF r > 1 THEN data[r - 1].netWorth ELSE 0)

C30_EventsWithoutRecurringData ==
    (pc \notin { "start", "loop" } /\ ~hasAnyData) =>
        /\ \A k \in DOMAIN financialData.lumpSums :
              CoveredMonth(financialData.lumpSums[k].date) =>
                  \E r \in DOMAIN data :
                      SnapshotOf(r, financialData.lumpSums[k].date) /\ ReflectsEvent(r)
        /\ \A k \in DOMAIN financialData.goals :
              CoveredMonth(financialData.goals[k].targetDate) =>
                  \E r \in DOMAIN data :
                      SnapshotOf(r, financialData.goals[k].targetDate) /\ ReflectsEvent(r)

-----------------------------------------------------------------------------
(* C25: in the timeline of CashflowChart, for each of the yearly,          *)
(* quarterly and monthly views, every lump sum dated within the years that *)
(* the view covers is matched to exactly one period, the one whose         *)
(* half-open interval [periodStart, periodEnd) contains its date; this     *)
(* includes the lump sums dated on the first or the last day of a period,  *)
(* in any time zone.                                                       *)
\* the period of the view that contains the calendar day of a date string
PeriodOfDate(str) ==
    [view |-> viewMode,
     y |-> str.y,
     n |-> IF viewMode = "yearly" THEN 0
           ELSE IF viewMode = "quarterly" THEN (str.m - 1) \div 3
           ELSE str.m - 1]

\* the rows whose lump sums hold the lump sum
RowsHolding(lumpSum) ==
    { r \in DOMAIN timelineData :
        \E j \in DOMAIN timelineData[r].lumpSums.items :
            timelineData[r].lumpSums.items[j] = lumpSum }

YearCovered(y) == y >= clock.y /\ y < clock.y + TimelineYears

C25_LumpInOnePeriod ==
    tpc = "done" =>
        \A k \in DOMAIN timelineProfile.lumpSums :
            LET lumpSum == timelineProfile.lumpSums[k]
            IN  YearCovered(lumpSum.date.y) =>
                    /\ Cardinality(RowsHolding(lumpSum)) = 1
                    /\ \A r \in RowsHolding(lumpSum) :
                          timelineData[r].period = PeriodOfDate(lumpSum.date)

-----------------------------------------------------------------------------
(* Claims about the supervisor's tool loop *)

\* the function_call items of the responses, in the order of arrival
RECURSIVE CallsOf(_)
CallsOf(responses) ==
    IF responses = << >> THEN << >>
    ELSE FunctionCalls(Head(responses)) \o CallsOf(Tail(responses))

IsPrefix(s, t) == Len(s) <= Len(t) /\ SubSeq(t, 1, Len(s)) = s

\* the input is the first input followed, for each call in order, by the
\* function_call and then the function_call_output of the same call_id
AnsweredIn(input, toolCalls) ==
    /\ Len(input) = 2 + 2 * Len(toolCalls)
    /\ SubSeq(input, 1, 2) = requests[1]
    /\ \A k \in DOMAIN toolCalls :
          /\ input[2 * k + 1].type = "function_call"
          /\ input[2 * k + 1].call_id = toolCalls[k].call_id
          /\ input[2 * k + 1].name = toolCalls[k].name
          /\ input[2 * k + 1].arguments = toolCalls[k].arguments
          /\ input[2 * k + 2].type = "function_call_output"
          /\ input[2 * k + 2].call_id = toolCalls[k].call_id

\* the input holds the pair of every executed call, a request sent earlier
\* is a prefix of it, and the request that follows the k-th response holds
\* the pairs of the calls of the first k responses
InputGrowsByPairs ==
    spc # "idle" =>
        /\ AnsweredIn(body, executed)
        /\ \A k \in DOMAIN requests :
              /\ IsPrefix(requests[k], body)
              /\ AnsweredIn(requests[k], CallsOf(SubSeq(received, 1, k - 1)))

\* C27 (as stated): every function_call item of a response is executed
\* once, in order, and answered in the input by its function_call and then
\* its function_call_output; the calls of a response are all in the input
\* of the next request; the input only grows.
C27_EveryCallAnswered ==
    /\ InputGrowsByPairs
    /\ spc \in { "await", "returned", "thrown" } => executed = CallsOf(received)

\* C27 (amended): the function_call items are executed once and in order
\* and each is answered by its pair; all the calls of a response are
\* executed before the next request, which holds their pairs; the input
\* only grows.  A call whose arguments JSON.parse rejects ends the whole
\* call with an exception: it and the calls after it are not executed.
C27_ParsedCallsAnswered ==
    /\ InputGrowsByPairs
    /\ IsPrefix(executed, CallsOf(received))
    /\ spc \in { "await", "returned" } => executed = CallsOf(received)
    /\ (spc = "thrown" /\ executed # CallsOf(received)) =>
          ~Parses(CallsOf(received)[Len(executed) + 1].arguments)

\* two responses with function calls were handled: three calls executed,
\* six items appended, and the second follow-up request is out
C27_Witness ==
    /\ spc = "await"
    /\ Len(requests) = 3
    /\ Len(executed) = 3
    /\ Len(body) = 8
    /\ executed[2].name = "lookup_rates" \/ executed[3].name = "lookup_rates"


\* a response that ends the loop: an error, or no function_call item
IsFinal(response) == "error" \in DOMAIN response \/ FunctionCalls(response) = << >>

\* the responses received so far that held function calls
ToolResponses == { k \in DOMAIN received : ~IsFinal(received[k]) }

\* the call has returned at the first final response, with the value for
\* it, and every request it sent was answered
ReturnsAtFirstFinal ==
    /\ \A k \in DOMAIN received :
          IsFinal(received[k]) => k = Len(received) /\ spc \in { "handle", "returned" }
    /\ spc = "returned" =>
          /\ received # << >>
          /\ IsFinal(received[Len(received)])
          /\ result = IF "error" \in DOMAIN received[Len(received)]
                      THEN ErrorValue
                      ELSE [text |-> FinalText(received[Len(received)])]
          /\ Len(requests) = Len(received)

Ended == spc \in { "returned", "thrown" }

\* C28 (as stated): the call returns at the first response that is an
\* error (with the error value) or has no function_call item (with the
\* joined output_text), and sends nothing after it; every response with
\* function calls is followed by exactly one request; the call ends once
\* the service gives a final response.
C28_OneFollowUpPerToolResponse ==
    /\ [](/\ ReturnsAtFirstFinal
          /\ Len(requests) <= 1 + Cardinality(ToolResponses)
          /\ spc \in { "await", "returned", "thrown" } =>
                Len(requests) = 1 + Cardinality(ToolResponses))
    /\ <>Ended
    /\ (received # << >> /\ IsFinal(received[Len(received)])) ~> (spc = "returned")

\* C28 (amended): as stated, except that a response with function calls
\* is followed by one request only when the arguments of all its calls
\* parse; when JSON.parse throws, the call ends by the exception with no
\* request sent for that response.
C28_OneFollowUpUnlessThrown ==
    /\ [](/\ ReturnsAtFirstFinal
          /\ Len(requests) <= 1 + Cardinality(ToolResponses)
          /\ spc \in { "await", "returned" } =>
                Len(requests) = 1 + Cardinality(ToolResponses)
          /\ spc = "thrown" =>
                \/ Len(requests) = 1 + Cardinality(ToolResponses)
                \/ /\ Len(requests) = Cardinality(ToolResponses)
                   /\ executed # CallsOf(received)
                   /\ ~Parses(CallsOf(received)[Len(executed) + 1].arguments))
    /\ <>Ended
    /\ (received # << >> /\ IsFinal(received[Len(received)])) ~> (spc = "returned")

\* the call returned the text of a response without function calls after
\* two responses with function calls and their two follow-up requests
C28_Witness ==
    /\ spc = "returned"
    /\ Len(requests) = 3
    /\ Cardinality(ToolResponses) = 2
    /\ result = [text |-> << "Your plan", " is ready.", "\n", "Anything else?" >>]

\* the extract_financial_info calls among the calls
ExtractCalls(toolCalls) ==
    SelectSeq(toolCalls, LAMBDA c : c.name = "extract_financial_info")

\* the accumulator after the calls, from the call number n on
RECURSIVE Applied(_, _, _)
Applied(g, toolCalls, n) ==
    IF toolCalls = << >> THEN g
    ELSE Applied(MergeArgs(g, JsonParse(Head(toolCalls).arguments), n + 1),
                 Tail(toolCalls), n + 1)

\* C29: when execute returns the error value, every extract_financial_info
\* call of the earlier responses is in the accumulated profile and was
\* delivered to the dashboard, nothing is undone; when the first request
\* failed, the profile is the one of the start.
C29_NoRollback ==
    (spc = "returned" /\ result = ErrorValue) =>
        LET atStart == requests[1][2].content.state.json
            extracted == ExtractCalls(CallsOf(received))
        IN  /\ globalFinancialData = Applied(atStart, extracted, 0)
            /\ financialData = globalFinancialData
            /\ Len(deliveries) = Len(extracted)
            /\ \A k \in DOMAIN deliveries :
                  deliveries[k].value = Applied(atStart, SubSeq(extracted, 1, k), 0)
            /\ Len(received) = 1 =>
                  /\ globalFinancialData = atStart
                  /\ deliveries = << >>

\* a follow-up request failed after two extract_financial_info calls, and
\* the profile differs from the one of the start
C29_Witness ==
    /\ spc = "returned"
    /\ result = ErrorValue
    /\ Len(received) >= 2
    /\ Len(deliveries) = 2
    /\ globalFinancialData # requests[1][2].content.state.json
    /\ financialData = globalFinancialData

=============================================================================
